---- MODULE Spec2Model ----
(***************************************************************************)
(* A model of the clawrrency ledger engine (packages/ledger), its economic *)
(* pre-check (core/economy), the transaction digest and signature          *)
(* primitives (core/crypto), the skill marketplace purchase path and the   *)
(* PBFT validator.                                                         *)
(*                                                                         *)
(* Hashing is modelled as an injective function of exactly the fields the  *)
(* code feeds to SHA-256: a digest is the record of the hashed fields.     *)
(* An Ed25519 signature is modelled as the pair (signing key, signed       *)
(* message); the private key of public key k is written k as well.         *)
(***************************************************************************)
EXTENDS Integers, Sequences, FiniteSets, TLC

VARIABLES
    ledger,     \* InMemoryLedger.state of the stand-alone ledger instance
    now,        \* the value Date.now() returns
    lastOp,     \* the operation that returned last, or the await a call is at
    result,     \* what that operation returned
    storage,    \* SkillMarketplace.storage
    identity,   \* IdentityManager.storage
    validators, \* the PBFTValidator instances, each with its own ledger
    deliveries, \* consensus messages handed to a handler so far
    suspended,  \* per validator, the PRE-PREPAREs of submitTransaction calls
                \* that wait at `await this.signMessage`
    applying,   \* per validator, the commitTransaction calls that wait for
                \* `await this.ledger.applyTransaction`, oldest first
    calls,      \* per validator, the commit callbacks invoked so far, in order
    file,       \* the content of the ledger's storagePath: << >> or <<text>>
    initialized, \* InMemoryLedger.initialized of the stand-alone instance
    inflight    \* the calls made on that instance: arguments, the await
                \* each is at, and what it returned

vars == <<ledger, now, lastOp, result, storage, identity, validators, deliveries,
         suspended, applying, calls, file, initialized, inflight>>
ioVars == <<file, initialized, inflight>>
marketVars == <<storage, identity>>
pbftVars == <<validators, deliveries, suspended, applying, calls>>

----------------------------------------------------------------------------
(* Bounds of the model *)

MaxTx == 2          \* applied-log size at which applyTransaction is no longer offered
MaxNow == 1         \* the clock stops advancing here
MaxHeight == 1      \* block_height stops being incremented here
MaxSubmits == 2     \* transactions accepted by submitTransaction, over all validators
MaxDeliveries == 3  \* consensus messages handed to handlers, over all validators
MaxCallbacks == 2   \* callbacks registered with onCommit, per validator
MaxReviews == 2     \* reviews stored on one listing
MaxAttestations == 1 \* attestations stored on one identity

(* Inputs *)

Keys == {"a", "b", "c"}                 \* public keys callers use
Senders == {"a", "b"}                   \* the keys transactions are sent from
Attacker == "z"                         \* a key pair that owns no account
NoKey == "none"                         \* an absent optional `to`
NoData == "nodata"                      \* an absent optional `data`
TxTypes == {"transfer", "mint", "burn", "stake", "skill_create", "skill_purchase"}
TxAmounts == {-1, 0, 2}
TxNonces == {1, 2}
TxTimestamps == {7}
InitialBalances == {-1, 4}
\* <<type, to, amount>>: every transfer shape, and one shape of each other type
TxShapes ==
    ({"transfer"} \X (Keys \cup {NoKey}) \X TxAmounts) \cup
    {<<"mint", NoKey, 0>>, <<"burn", NoKey, 2>>, <<"stake", "b", 2>>,
     <<"skill_create", NoKey, 0>>, <<"skill_purchase", "b", 2>>}

----------------------------------------------------------------------------
(* core/crypto *)

\* hashData of an object: SHA-256 of its canonical JSON, injective on the
\* serialised fields.
hashData(obj) == obj

\* hashTransaction: only these eight fields are hashed; the signature is not.
hashTransaction(tx) ==
    hashData([version |-> tx.version, type |-> tx.type, from |-> tx.from,
              to |-> tx.to, amount |-> tx.amount, nonce |-> tx.nonce,
              timestamp |-> tx.timestamp, data |-> tx.data])

signMessage(message, private_key) == [signer |-> private_key, msg |-> message]

verifySignature(message, signature, public_key) ==
    signature.signer = public_key /\ signature.msg = message

signTransaction(tx, private_key) == signMessage(hashTransaction(tx), private_key)

\* a bug that verifies the signature of transfers only
verifyTransactionSignature_transfersOnly(tx) ==
    tx.type # "transfer" \/ verifySignature(hashTransaction(tx), tx.signature, tx.from)

verifyTransactionSignature(tx) ==
    verifySignature(hashTransaction(tx), tx.signature, tx.from)

----------------------------------------------------------------------------
(* core/economy *)

transaction_fee == 1
MAX_SAFE_INTEGER == 1000

\* A JavaScript number is an integer or NaN; JSON has null where a number
\* was NaN.  Both are encoded as integers no computation here produces.
NaN == -1000001
Null == -1000002
\* ToNumber: null counts as 0 in arithmetic and in comparisons
ToNumber(x) == IF x = Null THEN 0 ELSE x
jsAdd(x, y) ==
    IF ToNumber(x) = NaN \/ ToNumber(y) = NaN THEN NaN ELSE ToNumber(x) + ToNumber(y)
jsSub(x, y) ==
    IF ToNumber(x) = NaN \/ ToNumber(y) = NaN THEN NaN ELSE ToNumber(x) - ToNumber(y)
\* x < y: false when either side is NaN
jsLess(x, y) ==
    ToNumber(x) # NaN /\ ToNumber(y) # NaN /\ ToNumber(x) < ToNumber(y)

validateEconomicConstraints(tx, sender_balance) ==
    IF jsLess(MAX_SAFE_INTEGER, tx.amount)
    THEN [valid |-> FALSE, error |-> "Amount too large"]
    ELSE IF jsLess(tx.amount, 0)
    THEN [valid |-> FALSE, error |-> "Negative amount not allowed"]
    ELSE IF tx.amount = 0 /\ tx.type = "transfer"
    THEN [valid |-> FALSE, error |-> "Zero amount transfer not allowed"]
    ELSE IF jsLess(sender_balance, jsAdd(tx.amount, transaction_fee))
    THEN [valid |-> FALSE, error |-> "Insufficient balance"]
    ELSE [valid |-> TRUE, error |-> "none"]

----------------------------------------------------------------------------
(* packages/ledger: InMemoryLedger, as pure functions of its state L *)

EmptyLedger ==
    [version |-> 1, block_height |-> 0, accounts |-> << >>,
     transactions |-> << >>, account_transactions |-> << >>]

Ok == [success |-> TRUE, error |-> "none", expected |-> 0]
Err(msg) == [success |-> FALSE, error |-> msg, expected |-> 0]
ErrNonce(exp) == [success |-> FALSE, error |-> "Invalid nonce", expected |-> exp]

\* `account?.balance || 0`: 0 also where the balance is NaN or null
getBalance(L, pk) ==
    IF pk \in DOMAIN L.accounts /\ L.accounts[pk].balance \notin {NaN, Null}
    THEN L.accounts[pk].balance ELSE 0

accountExists(L, pk) == pk \in DOMAIN L.accounts

\* createAccount: throws when the key is present, otherwise stores a fresh
\* account with the given balance and an empty index.
createAccount(L, pk, initial_balance, t) ==
    IF pk \in DOMAIN L.accounts
    THEN [state |-> L, result |-> Err("Account already exists")]
    ELSE [state |->
            [L EXCEPT
               !.accounts = (pk :> [balance |-> initial_balance, nonce |-> 0,
                                    reputation |-> 0, created_at |-> t,
                                    last_active |-> t, updated_at |-> t,
                                    stake_locked |-> 0]) @@ @,
               !.account_transactions = (pk :> << >>) @@ @],
          result |-> Ok]

\* a bug that forgets the duplicate check
isDuplicate_never(L, txHash) == FALSE

\* lines 145-147: the digest is already a key of the applied log
isDuplicate(L, txHash) == txHash \in DOMAIN L.transactions

\* line 154
nonceMatches(sender, tx) == tx.nonce = sender.nonce + 1

\* line 168: `tx.type === 'transfer' && tx.to`
isTransferWithRecipient(tx) == tx.type = "transfer" /\ tx.to # NoKey

\* lines 174-187: debit, credit, nonce and timestamps, in the code's order;
\* sender and recipient are the same object when tx.to = tx.from.
applyTransfer(accts, tx, t) ==
    LET totalDebit == jsAdd(tx.amount, 1)
        a1 == [accts EXCEPT ![tx.from].balance = jsSub(@, totalDebit)]
        a2 == [a1 EXCEPT ![tx.to].balance = jsAdd(@, tx.amount)]
        a3 == [a2 EXCEPT ![tx.from].nonce = tx.nonce,
                         ![tx.from].last_active = t,
                         ![tx.from].updated_at = t]
    IN  [a3 EXCEPT ![tx.to].updated_at = t]

pushIndex(idx, pk, txHash) ==
    IF pk \in DOMAIN idx
    THEN [idx EXCEPT ![pk] = Append(@, txHash)]
    ELSE (pk :> <<txHash>>) @@ idx

\* lines 190-209: the stored record and the per-account indices
storeTransaction(L, accts, tx, txHash, t) ==
    LET storedTx == [version |-> tx.version, type |-> tx.type, from |-> tx.from,
                     to |-> tx.to, amount |-> tx.amount, nonce |-> tx.nonce,
                     timestamp |-> tx.timestamp, data |-> tx.data,
                     signature |-> tx.signature, hash |-> txHash,
                     block_height |-> L.block_height, applied_at |-> t]
        idx1 == pushIndex(L.account_transactions, tx.from, txHash)
        idx2 == IF tx.to # NoKey /\ tx.to # tx.from
                THEN pushIndex(idx1, tx.to, txHash) ELSE idx1
    IN  [L EXCEPT !.accounts = accts,
                  !.transactions = (txHash :> storedTx) @@ @,
                  !.account_transactions = idx2]

\* a bug that debits the sender before it looks the recipient up
recipientNotFound_afterDebit(L, tx) ==
    [state |-> [L EXCEPT !.accounts[tx.from].balance = @ - (tx.amount + 1)],
     result |-> Err("Recipient account not found")]

\* lines 169-172: the recipient is looked up before anything is written
recipientNotFound(L, tx) ==
    [state |-> L, result |-> Err("Recipient account not found")]

\* a bug that verifies the signature before it compares the nonce
applyTransaction_signatureFirst(L, tx, t) ==
    LET txHash == hashTransaction(tx) IN
    IF isDuplicate(L, txHash)
    THEN [state |-> L, result |-> Err("Transaction already exists (duplicate)")]
    ELSE IF tx.from \notin DOMAIN L.accounts
    THEN [state |-> L, result |-> Err("Sender account not found")]
    ELSE LET sender == L.accounts[tx.from] IN
    IF ~verifyTransactionSignature(tx)
    THEN [state |-> L, result |-> Err("Invalid transaction signature")]
    ELSE IF ~nonceMatches(sender, tx)
    THEN [state |-> L, result |-> ErrNonce(sender.nonce + 1)]
    ELSE LET economicCheck == validateEconomicConstraints(tx, sender.balance) IN
    IF ~economicCheck.valid
    THEN [state |-> L, result |-> Err(economicCheck.error)]
    ELSE IF isTransferWithRecipient(tx)
    THEN IF tx.to \notin DOMAIN L.accounts
         THEN recipientNotFound(L, tx)
         ELSE [state |-> storeTransaction(L, applyTransfer(L.accounts, tx, t),
                                          tx, txHash, t),
               result |-> Ok]
    ELSE [state |-> storeTransaction(L, L.accounts, tx, txHash, t),
          result |-> Ok]

applyTransaction(L, tx, t) ==
    LET txHash == hashTransaction(tx) IN
    IF isDuplicate(L, txHash)
    THEN [state |-> L, result |-> Err("Transaction already exists (duplicate)")]
    ELSE IF tx.from \notin DOMAIN L.accounts
    THEN [state |-> L, result |-> Err("Sender account not found")]
    ELSE LET sender == L.accounts[tx.from] IN
    IF ~nonceMatches(sender, tx)
    THEN [state |-> L, result |-> ErrNonce(sender.nonce + 1)]
    ELSE IF ~verifyTransactionSignature(tx)
    THEN [state |-> L, result |-> Err("Invalid transaction signature")]
    ELSE LET economicCheck == validateEconomicConstraints(tx, sender.balance) IN
    IF ~economicCheck.valid
    THEN [state |-> L, result |-> Err(economicCheck.error)]
    ELSE IF isTransferWithRecipient(tx)
    THEN IF tx.to \notin DOMAIN L.accounts
         THEN recipientNotFound(L, tx)
         ELSE IF jsLess(sender.balance, jsAdd(tx.amount, 1))
         THEN [state |-> L, result |-> Err("Insufficient balance")]
         ELSE [state |-> storeTransaction(L, applyTransfer(L.accounts, tx, t),
                                          tx, txHash, t),
               result |-> Ok]
    ELSE [state |-> storeTransaction(L, L.accounts, tx, txHash, t),
          result |-> Ok]

incrementBlockHeight(L) == [L EXCEPT !.block_height = @ + 1]

\* Array.prototype.slice(-limit): the last `limit` elements, all of them
\* when limit is 0 (-0 is 0) or exceeds the length
sliceLast(seq, limit) ==
    IF limit = 0 \/ limit >= Len(seq) THEN seq
    ELSE SubSeq(seq, Len(seq) - limit + 1, Len(seq))

\* one step of the stable sort by applied_at, descending: x, which stood
\* before every element of `sorted`, goes behind the strictly newer ones
insertByAppliedAt(x, sorted) ==
    LET newer == {i \in DOMAIN sorted : sorted[i].applied_at > x.applied_at}
        k == Cardinality(newer)
    IN  SubSeq(sorted, 1, k) \o <<x>> \o SubSeq(sorted, k + 1, Len(sorted))

RECURSIVE sortByAppliedAt(_)
sortByAppliedAt(seq) ==
    IF seq = << >> THEN << >>
    ELSE insertByAppliedAt(seq[1], sortByAppliedAt(Tail(seq)))

\* getTransactionHistory for limit >= 0: the last `limit` digests of the
\* key's index, looked up, sorted newest first and stripped of hash,
\* block_height and applied_at
getTransactionHistory(L, public_key, limit) ==
    LET txHashes == IF public_key \in DOMAIN L.account_transactions
                    THEN L.account_transactions[public_key] ELSE << >>
        found == SelectSeq(sliceLast(txHashes, limit),
                           LAMBDA h : h \in DOMAIN L.transactions)
        sorted == sortByAppliedAt([i \in DOMAIN found |-> L.transactions[found[i]]])
    IN  [i \in DOMAIN sorted |->
            [version |-> sorted[i].version, type |-> sorted[i].type,
             from |-> sorted[i].from, to |-> sorted[i].to,
             amount |-> sorted[i].amount, nonce |-> sorted[i].nonce,
             timestamp |-> sorted[i].timestamp, data |-> sorted[i].data,
             signature |-> sorted[i].signature]]

NoTransaction == "null"

\* getTransactionByHash: the stored record without hash, block_height and
\* applied_at, null for a key the applied log does not hold
getTransactionByHash(L, hash) ==
    IF hash \notin DOMAIN L.transactions THEN NoTransaction
    ELSE LET tx == L.transactions[hash]
         IN  [version |-> tx.version, type |-> tx.type, from |-> tx.from,
              to |-> tx.to, amount |-> tx.amount, nonce |-> tx.nonce,
              timestamp |-> tx.timestamp, data |-> tx.data,
              signature |-> tx.signature]

----------------------------------------------------------------------------
(* Transactions callers submit to the ledger *)

UnsignedTxs ==
    {[version |-> 1, type |-> s[1], from |-> f, to |-> s[2], amount |-> s[3],
      nonce |-> n, timestamp |-> ts, data |-> NoData] :
        s \in TxShapes, f \in Senders, n \in TxNonces, ts \in TxTimestamps}

WithSignature(tx, sig) ==
    [version |-> tx.version, type |-> tx.type, from |-> tx.from, to |-> tx.to,
     amount |-> tx.amount, nonce |-> tx.nonce, timestamp |-> tx.timestamp,
     data |-> tx.data, signature |-> sig]

TxInputs ==
    UNION {{WithSignature(tx, signTransaction(tx, k)) : k \in {tx.from, Attacker}} :
               tx \in UnsignedTxs}

----------------------------------------------------------------------------
(* packages/identity: IdentityManager, as pure functions of its storage I *)

EmptyIdentity == [bots |-> << >>, attestations |-> << >>, version |-> 1]

MonthTicks == 30    \* clock ticks in the 30 days of an account-age month

NoCounters ==
    [successful_trades |-> 0, skills_created |-> 0, validator_uptime_hours |-> 0,
     governance_votes |-> 0, disputes_lost |-> 0, spam_flags |-> 0]

RECURSIVE decay(_, _)
\* reputation * (1 - 0.01)^months, rounded down at every month
decay(reputation, months) ==
    IF months = 0 THEN reputation
    ELSE decay((reputation * 99) \div 100, months - 1)

Max(x, y) == IF x >= y THEN x ELSE y

\* calculateReputation; the 0.1-per-hour uptime weight is taken on whole
\* tens of hours.
calculateReputation(c, account_age_months) ==
    LET raw == c.successful_trades * 10 + c.skills_created * 20
               + (c.validator_uptime_hours \div 10) + c.governance_votes * 5
               - c.disputes_lost * 50 - c.spam_flags * 100
    IN  Max(0, decay(raw, account_age_months))

\* createWallet: BotWallet.create with a fresh key pair
createWallet(I, pk, t) ==
    [I EXCEPT !.bots = (pk :> [private_key |-> pk, created_at |-> t,
                               reputation |-> 0, staked_amount |-> 0,
                               stake_locked_until |-> 0,
                               attestations |-> << >>]) @@ @]

\* updateReputation: the reputation is recomputed from the counters passed
\* in this call; an unknown key changes nothing.
updateReputation(I, pk, params, t) ==
    IF pk \notin DOMAIN I.bots THEN I
    ELSE LET age == (t - I.bots[pk].created_at) \div MonthTicks
         IN  [I EXCEPT !.bots[pk].reputation = calculateReputation(params, age)]

\* core/economy STAKE_REQUIREMENTS
STAKE_REQUIREMENTS ==
    [registration |-> 50, registration_lock_days |-> 30,
     attestation_reduction |-> 25, minimum_reputation_for_attestation |-> 100]

DayTicks == 1       \* clock ticks in 24 * 60 * 60 * 1000 ms

NoAttestation == "none"     \* an absent (or empty) `attestation`

\* registerBot: the attester is not looked up; any non-empty attestation
\* lowers the required stake.
registerBot(I, public_key, stake_amount, attestation, t) ==
    IF public_key \notin DOMAIN I.bots
    THEN [identity |-> I, result |-> Err("Identity not found")]
    ELSE LET required_stake == IF attestation # NoAttestation
                               THEN STAKE_REQUIREMENTS.attestation_reduction
                               ELSE STAKE_REQUIREMENTS.registration
    IN  IF stake_amount < required_stake
        THEN [identity |-> I, result |-> Err("Insufficient stake")]
        ELSE LET I1 == [I EXCEPT
                          !.bots[public_key].staked_amount = stake_amount,
                          !.bots[public_key].stake_locked_until =
                              t + STAKE_REQUIREMENTS.registration_lock_days * DayTicks]
             IN  IF attestation = NoAttestation
                 THEN [identity |-> I1, result |-> Ok]
                 ELSE [identity |->
                         [I1 EXCEPT
                            !.bots[public_key].attestations = Append(@, attestation),
                            !.attestations =
                                IF attestation \in DOMAIN @
                                THEN [@ EXCEPT ![attestation] = Append(@, public_key)]
                                ELSE (attestation :> <<public_key>>) @@ @],
                       result |-> Ok]

canAttest(I, attester_public_key) ==
    /\ attester_public_key \in DOMAIN I.bots
    /\ I.bots[attester_public_key].reputation >=
           STAKE_REQUIREMENTS.minimum_reputation_for_attestation

isRegistered(I, public_key, t) ==
    /\ public_key \in DOMAIN I.bots
    /\ I.bots[public_key].staked_amount >= STAKE_REQUIREMENTS.registration
    /\ I.bots[public_key].stake_locked_until > t

----------------------------------------------------------------------------
(* packages/openclaw: SkillMarketplace, as pure functions of its storage M *)

EmptyStorage ==
    [skills |-> << >>, listings |-> << >>, purchases |-> << >>, version |-> 1]

NoEntry == "noentry"

\* lines 118-127 and 269-278: the manifest that is hashed
manifestOf(name, description, version, type, fileHashes, dependencies, license, entry_point) ==
    [name |-> name, description |-> description, version |-> version,
     type |-> type,
     files |-> [i \in DOMAIN fileHashes |->
                   [path |-> fileHashes[i].path, hash |-> fileHashes[i].hash]],
     dependencies |-> dependencies, license |-> license,
     entry_point |-> entry_point]

createSkill(M, I, in, creator, t) ==
    LET fileHashes == [i \in DOMAIN in.files |->
                          [path |-> in.files[i].path,
                           content |-> in.files[i].content,
                           hash |-> hashData(in.files[i].content)]]
        manifest == manifestOf(in.name, in.description, in.version, in.type,
                               fileHashes, in.dependencies, in.license,
                               in.entry_point)
        manifest_hash == hashData(manifest)
        skill_id == manifest_hash
    IN  IF skill_id \in DOMAIN M.skills
        THEN [storage |-> M, identity |-> I, result |-> Err("Skill already exists")]
        ELSE [storage |->
                [M EXCEPT !.skills =
                    (skill_id :>
                       [id |-> skill_id, name |-> in.name,
                        description |-> in.description, version |-> in.version,
                        type |-> in.type, files |-> fileHashes,
                        manifest_hash |-> manifest_hash,
                        dependencies |-> in.dependencies, license |-> in.license,
                        entry_point |-> in.entry_point, created_by |-> creator,
                        created_at |-> t]) @@ @],
              identity |-> updateReputation(I, creator,
                              [NoCounters EXCEPT !.skills_created = 1], t),
              result |-> Ok]

\* a bug that lets everybody list a skill
listSkill_anySeller(M, skill_id, price, seller, t) ==
    IF skill_id \notin DOMAIN M.skills
    THEN [storage |-> M, result |-> Err("Skill not found")]
    ELSE [storage |->
            [M EXCEPT !.listings =
                (skill_id :> [skill_id |-> skill_id, seller |-> seller,
                              price |-> price, listed_at |-> t,
                              status |-> "active", sales_count |-> 0,
                              rating |-> 0, reviews |-> << >>])
                @@ [k \in DOMAIN @ \ {skill_id} |-> @[k]]],
          result |-> Ok]

listSkill(M, skill_id, price, seller, t) ==
    IF skill_id \notin DOMAIN M.skills
    THEN [storage |-> M, result |-> Err("Skill not found")]
    ELSE IF M.skills[skill_id].created_by # seller
    THEN [storage |-> M, result |-> Err("Only creator can list skill")]
    ELSE [storage |->
            [M EXCEPT !.listings =
                (skill_id :> [skill_id |-> skill_id, seller |-> seller,
                              price |-> price, listed_at |-> t,
                              status |-> "active", sales_count |-> 0,
                              rating |-> 0, reviews |-> << >>])
                @@ [k \in DOMAIN @ \ {skill_id} |-> @[k]]],
          result |-> Ok]

delistSkill(M, skill_id, seller) ==
    IF skill_id \notin DOMAIN M.listings
    THEN [storage |-> M, result |-> Err("Listing not found")]
    ELSE IF M.listings[skill_id].seller # seller
    THEN [storage |-> M, result |-> Err("Only seller can delist")]
    ELSE [storage |-> [M EXCEPT !.listings[skill_id].status = "delisted"],
          result |-> Ok]

\* lines 215-230: the skill_purchase transaction purchaseSkill builds
purchaseTx(M, L, skill_id, buyer, t) ==
    LET listing == M.listings[skill_id]
        skill == M.skills[skill_id]
    IN  [version |-> 1, type |-> "skill_purchase", from |-> buyer,
         to |-> listing.seller, amount |-> listing.price,
         nonce |-> L.accounts[buyer].nonce + 1, timestamp |-> t,
         data |-> [skill_id |-> skill_id, manifest_hash |-> skill.manifest_hash,
                   creator_pubkey |-> skill.created_by, price |-> listing.price,
                   created_at |-> skill.created_at]]

\* a bug that sells every skill that was ever listed
notAvailable_neverListed(M, skill_id) == skill_id \notin DOMAIN M.listings

\* line 196: `!listing || listing.status !== 'active'`
notAvailable(M, skill_id) ==
    skill_id \notin DOMAIN M.listings \/ M.listings[skill_id].status # "active"

purchaseSkill(M, L, I, skill_id, buyer, buyer_private_key, t) ==
    LET fail(msg) == [storage |-> M, ledger |-> L, identity |-> I,
                      result |-> Err(msg)]
    IN
    IF notAvailable(M, skill_id)
    THEN fail("Skill not available for purchase")
    ELSE IF skill_id \notin DOMAIN M.skills
    THEN fail("Skill not found")
    ELSE IF getBalance(L, buyer) < M.listings[skill_id].price
    THEN fail("Insufficient balance")
    ELSE IF buyer \notin DOMAIN L.accounts
    THEN fail("Buyer account not found")
    ELSE
    LET listing == M.listings[skill_id]
        tx == purchaseTx(M, L, skill_id, buyer, t)
        signature == signTransaction(tx, buyer_private_key)
        signed == WithSignature(tx, signature)
        applied == applyTransaction(L, signed, t)
    IN  IF ~applied.result.success
        THEN [storage |-> M, ledger |-> applied.state, identity |-> I,
              result |-> applied.result]
        ELSE
        LET purchase == [skill_id |-> skill_id, buyer |-> buyer,
                         seller |-> listing.seller, price |-> listing.price,
                         purchased_at |-> t,
                         transaction_hash |-> hashData(signed)]
            M1 == [M EXCEPT !.purchases =
                      IF skill_id \in DOMAIN @
                      THEN [@ EXCEPT ![skill_id] = Append(@, purchase)]
                      ELSE (skill_id :> <<purchase>>) @@ @]
            M2 == [M1 EXCEPT !.listings[skill_id].sales_count = @ + 1]
        IN  [storage |-> M2, ledger |-> applied.state,
             identity |-> updateReputation(I, buyer,
                             [NoCounters EXCEPT !.successful_trades = 1], t),
             result |-> Ok]

\* a bug that compares the manifest hash only
verifySkill_manifestOnly(M, skill_id) ==
    IF skill_id \notin DOMAIN M.skills
    THEN [valid |-> FALSE, error |-> "Skill not found"]
    ELSE LET skill == M.skills[skill_id] IN
    IF hashData(manifestOf(skill.name, skill.description, skill.version,
                           skill.type, skill.files, skill.dependencies,
                           skill.license, skill.entry_point)) # skill.manifest_hash
    THEN [valid |-> FALSE, error |-> "Manifest hash mismatch"]
    ELSE [valid |-> TRUE, error |-> "none"]

\* verifySkill: the manifest is rebuilt from the stored fields and hashed,
\* then every file's content is hashed; the stored id is not looked at.
verifySkill(M, skill_id) ==
    IF skill_id \notin DOMAIN M.skills
    THEN [valid |-> FALSE, error |-> "Skill not found"]
    ELSE LET skill == M.skills[skill_id] IN
    IF hashData(manifestOf(skill.name, skill.description, skill.version,
                           skill.type, skill.files, skill.dependencies,
                           skill.license, skill.entry_point)) # skill.manifest_hash
    THEN [valid |-> FALSE, error |-> "Manifest hash mismatch"]
    ELSE IF \E i \in DOMAIN skill.files :
                hashData(skill.files[i].content) # skill.files[i].hash
    THEN [valid |-> FALSE, error |-> "File hash mismatch"]
    ELSE [valid |-> TRUE, error |-> "none"]

RECURSIVE sumRatings(_)
\* line 355: reviews.reduce((sum, r) => sum + r.rating, 0)
sumRatings(reviews) ==
    IF reviews = << >> THEN 0
    ELSE reviews[1].rating + sumRatings(Tail(reviews))

\* line 341: purchases[skill_id]?.some(p => p.buyer === reviewer)
hasPurchased(M, skill_id, reviewer) ==
    /\ skill_id \in DOMAIN M.purchases
    /\ \E i \in DOMAIN M.purchases[skill_id] : M.purchases[skill_id][i].buyer = reviewer

\* a bug that lets everybody review
addReview_anyone(M, skill_id, reviewer, rating, comment, t) ==
    IF skill_id \notin DOMAIN M.listings
    THEN [storage |-> M, result |-> Err("Listing not found")]
    ELSE LET reviews == Append(M.listings[skill_id].reviews,
                               [reviewer |-> reviewer, rating |-> rating,
                                comment |-> comment, timestamp |-> t])
         IN  [storage |-> [M EXCEPT !.listings[skill_id].reviews = reviews,
                                    !.listings[skill_id].rating =
                                        sumRatings(reviews) \div Len(reviews)],
              result |-> Ok]

\* addReview: the average is the exact quotient for the ratings reviewers
\* give here (the sums are multiples of the number of reviews).
addReview(M, skill_id, reviewer, rating, comment, t) ==
    IF skill_id \notin DOMAIN M.listings
    THEN [storage |-> M, result |-> Err("Listing not found")]
    ELSE IF ~hasPurchased(M, skill_id, reviewer)
    THEN [storage |-> M, result |-> Err("Only buyers can review")]
    ELSE LET reviews == Append(M.listings[skill_id].reviews,
                               [reviewer |-> reviewer, rating |-> rating,
                                comment |-> comment, timestamp |-> t])
         IN  [storage |-> [M EXCEPT !.listings[skill_id].reviews = reviews,
                                    !.listings[skill_id].rating =
                                        sumRatings(reviews) \div Len(reviews)],
              result |-> Ok]

----------------------------------------------------------------------------
(* packages/consensus: PBFTValidator, as pure functions of one instance N *)

EmptySig == [signer |-> "nobody", msg |-> "nothing"]

\* ValidatorConfig of validator id among the members S: the peers are the
\* other members, in the order every configuration lists them.
\* view_timeout_ms of every configuration, in clock ticks
view_timeout_ms == 1

ValOrder == <<"v1", "v2", "v3", "v4">>
IsPeer(id, S, x) == x \in S /\ x # id
configOf(id, S) ==
    LET others == SelectSeq(ValOrder, LAMBDA x : IsPeer(id, S, x))
    IN  [validator_id |-> id, public_key |-> id, private_key |-> id,
         view_timeout_ms |-> view_timeout_ms,
         peers |-> [i \in DOMAIN others |->
                       [id |-> others[i], public_key |-> others[i]]]]

electLeader(config, view) ==
    IF Len(config.peers) = 0 THEN config.validator_id
    ELSE LET all_validators ==
                 <<[id |-> config.validator_id, public_key |-> config.public_key]>>
                 \o config.peers
             leader_index == view % Len(all_validators)
         IN  all_validators[leader_index + 1].id

\* constructor
newValidator(config, L) ==
    LET leader_id == electLeader(config, 0)
    IN  [config |-> config, ledger |-> L, pending |-> << >>,
         message_log |-> << >>, on_commit_callbacks |-> << >>,
         state |-> [view |-> 0, sequence |-> 0,
                    is_leader |-> (leader_id = config.validator_id),
                    leader_id |-> leader_id, prepared |-> << >>,
                    committed |-> << >>, checkpoint |-> 0]]

isLeader(N) == N.state.is_leader
getLeaderId(N) == N.state.leader_id

\* lines 220-222 and 268-270
quorumOf(N) ==
    LET all_validators == Len(N.config.peers) + 1
        f == (all_validators - 1) \div 3
    IN  2 * f + 1

\* lines 224 and 272: the votes counted for a digest
voteCount(votes, tx_hash) == Cardinality(votes[tx_hash]) + 1

\* lines 214-218 and 262-266
addVote(votes, tx_hash, validator) ==
    IF tx_hash \in DOMAIN votes
    THEN [votes EXCEPT ![tx_hash] = @ \cup {validator}]
    ELSE (tx_hash :> {validator}) @@ votes

without(map, key) == [k \in DOMAIN map \ {key} |-> map[k]]

newMessage(N, type, sequence, tx_hash) ==
    [type |-> type, view |-> N.state.view, sequence |-> sequence,
     digest |-> tx_hash, validator |-> N.config.validator_id,
     signature |-> EmptySig]

\* PBFTValidator.signMessage over JSON.stringify(message)
signed(N, message) ==
    [message EXCEPT !.signature = signMessage(message, N.config.private_key)]

\* a bug that looks the sender up and does not verify its signature
verifyMessage_idOnly(N, message) ==
    \/ message.validator = N.config.validator_id
    \/ \E i \in DOMAIN N.config.peers : N.config.peers[i].id = message.validator

verifyMessage(N, message) ==
    LET msg_copy == [message EXCEPT !.signature = EmptySig]
        known == {i \in DOMAIN N.config.peers :
                     N.config.peers[i].id = message.validator}
    IN  IF message.validator = N.config.validator_id
        THEN verifySignature(msg_copy, message.signature, N.config.public_key)
        ELSE /\ known # {}
             /\ verifySignature(msg_copy, message.signature,
                    N.config.peers[CHOOSE i \in known :
                                      \A j \in known : i <= j].public_key)

onCommit(N, callback) ==
    [N EXCEPT !.on_commit_callbacks = Append(@, callback)]

invokeCallbacks_always(N, tx, success) ==
    [i \in DOMAIN N.on_commit_callbacks |->
        [callback |-> N.on_commit_callbacks[i], tx |-> tx]]

\* the callback invocations commitTransaction makes, in order (lines 291-293)
invokeCallbacks(N, tx, success) ==
    IF success
    THEN [i \in DOMAIN N.on_commit_callbacks |->
             [callback |-> N.on_commit_callbacks[i], tx |-> tx]]
    ELSE << >>

commitTransaction(N, tx_hash, tx, t) ==
    LET applied == applyTransaction(N.ledger, tx, t)
    IN  IF applied.result.success
        THEN [N EXCEPT !.ledger = applied.state,
                       !.pending = without(@, tx_hash),
                       !.state.prepared = without(@, tx_hash),
                       !.state.committed = without(@, tx_hash)]
        ELSE [N EXCEPT !.ledger = applied.state]

\* handleCommit up to `await this.commitTransaction(tx_hash, pending.tx)`
handleCommit(N, message, t) ==
    IF message.type # "commit" THEN N
    ELSE IF ~verifyMessage(N, message) THEN N
    ELSE IF message.view # N.state.view THEN N
    ELSE
    LET tx_hash == message.digest
        N1 == [N EXCEPT !.state.committed = addVote(@, tx_hash, message.validator)]
    IN  IF voteCount(N1.state.committed, tx_hash) >= quorumOf(N1)
           /\ tx_hash \in DOMAIN N1.pending
           /\ ~N1.pending[tx_hash].committed
        THEN [N1 EXCEPT !.pending[tx_hash].committed = TRUE]
        ELSE N1

\* the digest whose commit quorum a call reached, taking the instance from N
\* to N2: handleCommit goes on with `await this.commitTransaction` for it
reachedQuorum(N, N2) ==
    {d \in DOMAIN N2.pending :
        /\ N2.pending[d].committed
        /\ ~(d \in DOMAIN N.pending /\ N.pending[d].committed)}

broadcastCommit(N, tx_hash, t) ==
    LET message == signed(N, newMessage(N, "commit", N.state.sequence, tx_hash))
    IN  handleCommit([N EXCEPT !.message_log = Append(@, message)], message, t)

handlePrepare(N, message, t) ==
    IF message.type # "prepare" THEN N
    ELSE IF ~verifyMessage(N, message) THEN N
    ELSE IF message.view # N.state.view THEN N
    ELSE
    LET tx_hash == message.digest
        N1 == [N EXCEPT !.state.prepared = addVote(@, tx_hash, message.validator)]
    IN  IF voteCount(N1.state.prepared, tx_hash) >= quorumOf(N1)
           /\ tx_hash \in DOMAIN N1.pending
           /\ ~N1.pending[tx_hash].prepared
        THEN broadcastCommit([N1 EXCEPT !.pending[tx_hash].prepared = TRUE],
                             tx_hash, t)
        ELSE N1

broadcastPrepare(N, tx_hash, t) ==
    LET message == signed(N, newMessage(N, "prepare", N.state.sequence, tx_hash))
    IN  handlePrepare([N EXCEPT !.message_log = Append(@, message)], message, t)

\* line 182
markPrePrepared(entry) == [entry EXCEPT !.pre_prepared = TRUE]

handlePrePrepare(N, message, t) ==
    IF message.type # "pre-prepare" THEN N
    ELSE IF ~verifyMessage(N, message) THEN N
    ELSE IF message.view # N.state.view THEN N
    ELSE IF message.validator # N.state.leader_id THEN N
    ELSE IF message.digest \notin DOMAIN N.pending THEN N
    ELSE broadcastPrepare(
             [N EXCEPT !.pending[message.digest] = markPrePrepared(@)],
             message.digest, t)

\* broadcastPrePrepare up to `await this.signMessage(...)`: the message is
\* built and, with `sequence: this.state.sequence++`, carries the old value
buildPrePrepare(N, tx_hash) ==
    [node |-> [N EXCEPT !.state.sequence = @ + 1],
     message |-> newMessage(N, "pre-prepare", N.state.sequence, tx_hash)]

\* broadcastPrePrepare after the await: sign, log, handle
sendPrePrepare(N, message, t) ==
    handlePrePrepare([N EXCEPT !.message_log = Append(@, signed(N, message))],
                     signed(N, message), t)

\* the whole of broadcastPrePrepare, when nothing runs during its await
broadcastPrePrepare(N, tx_hash, t) ==
    LET b == buildPrePrepare(N, tx_hash) IN sendPrePrepare(b.node, b.message, t)

validateTransaction_anyNonce(N, tx) ==
    IF ~verifySignature(hashTransaction(tx), tx.signature, tx.from)
    THEN Err("Invalid signature")
    ELSE IF tx.from \notin DOMAIN N.ledger.accounts
    THEN Err("Sender account not found")
    ELSE Ok

validateTransaction(N, tx) ==
    IF ~verifySignature(hashTransaction(tx), tx.signature, tx.from)
    THEN Err("Invalid signature")
    ELSE IF tx.from \notin DOMAIN N.ledger.accounts
    THEN Err("Sender account not found")
    ELSE IF tx.nonce # N.ledger.accounts[tx.from].nonce + 1
    THEN ErrNonce(N.ledger.accounts[tx.from].nonce + 1)
    ELSE Ok

\* submitTransaction up to the first await that follows `this.pending.set`,
\* the `await this.signMessage` of broadcastPrePrepare.  `awaiting` holds the
\* PRE-PREPARE the call goes on with when it is resumed; it is empty when the
\* call has returned.
submitTransaction(N, tx, t) ==
    LET tx_hash == hashTransaction(tx)
        validation == validateTransaction(N, tx)
    IN  IF tx_hash \in DOMAIN N.pending
        THEN [node |-> N, result |-> Err("Transaction already pending"),
              awaiting |-> {}]
        ELSE IF ~validation.success
        THEN [node |-> N, result |-> validation, awaiting |-> {}]
        ELSE LET N1 == [N EXCEPT !.pending =
                          (tx_hash :> [tx |-> tx, received_at |-> t,
                                       pre_prepared |-> FALSE,
                                       prepared |-> FALSE,
                                       committed |-> FALSE]) @@ @]
                 b == buildPrePrepare(N1, tx_hash)
             IN  IF N1.state.is_leader
                 THEN [node |-> b.node, result |-> Ok, awaiting |-> {b.message}]
                 ELSE [node |-> N1, result |-> Ok, awaiting |-> {}]

----------------------------------------------------------------------------
(* The stand-alone ledger: its operations as actions *)

\* no call has been made on the stand-alone instance and nothing is stored
NoFile == << >>
NoInstance == file = NoFile /\ initialized = FALSE /\ inflight = << >>

LedgerInit ==
    /\ ledger = EmptyLedger
    /\ now = 0
    /\ lastOp = "constructor"
    /\ result = Ok
    /\ storage = EmptyStorage
    /\ identity = EmptyIdentity
    /\ NoInstance
    /\ validators = << >>
    /\ deliveries = 0
    /\ suspended = << >>
    /\ applying = << >>
    /\ calls = << >>

Tick ==
    /\ now < MaxNow
    /\ now' = now + 1
    /\ UNCHANGED <<ledger, lastOp, result, marketVars, pbftVars, ioVars>>

CreateAccount ==
    \E pk \in Keys, b \in InitialBalances :
        LET r == createAccount(ledger, pk, b, now) IN
        /\ ledger' = r.state
        /\ result' = r.result
        /\ lastOp' = "createAccount"
        /\ UNCHANGED <<now, marketVars, pbftVars, ioVars>>

ApplyTransaction ==
    /\ Cardinality(DOMAIN ledger.transactions) < MaxTx
    /\ \E tx \in TxInputs :
        LET r == applyTransaction(ledger, tx, now) IN
        /\ ledger' = r.state
        /\ result' = r.result
        /\ lastOp' = "applyTransaction"
        /\ UNCHANGED <<now, marketVars, pbftVars, ioVars>>

IncrementBlockHeight ==
    /\ ledger.block_height < MaxHeight
    /\ ledger' = incrementBlockHeight(ledger)
    /\ result' = Ok
    /\ lastOp' = "incrementBlockHeight"
    /\ UNCHANGED <<now, marketVars, pbftVars, ioVars>>

LedgerNext == Tick \/ CreateAccount \/ ApplyTransaction \/ IncrementBlockHeight

Spec == LedgerInit /\ [][LedgerNext]_vars

----------------------------------------------------------------------------
(* Properties of the ledger engine *)

RECURSIVE SumBalances(_, _)
SumBalances(accts, S) ==
    IF S = {} THEN 0
    ELSE LET pk == CHOOSE x \in S : TRUE
         IN  accts[pk].balance + SumBalances(accts, S \ {pk})

TotalSupply(L) == SumBalances(L.accounts, DOMAIN L.accounts)

\* the digests a step adds to the applied log
NewDigests == DOMAIN ledger'.transactions \ DOMAIN ledger.transactions

NoRepeats(seq) == \A i, j \in 1..Len(seq) : seq[i] = seq[j] => i = j

DuplicateError == Err("Transaction already exists (duplicate)")

\* C1: every applyTransaction call that returns success = false leaves the
\* whole ledger state (accounts with balances, nonces and timestamps, the
\* applied log, the per-account indices, block_height) as it was.
C1_FailedApplyLeavesLedgerUnchanged ==
    [][(lastOp' = "applyTransaction" /\ ~result'.success) => ledger' = ledger]_vars

\* a signature failure, reported by a ledger that already holds a
\* transaction and whose clock has moved since its accounts were created
C1_Witness ==
    /\ lastOp = "applyTransaction"
    /\ result = Err("Invalid transaction signature")
    /\ ledger.transactions # << >>
    /\ \E pk \in DOMAIN ledger.accounts : ledger.accounts[pk].updated_at < now

\* C2: no digest is accepted twice (every accepted digest is pushed on its
\* sender's index, so a digest accepted twice would repeat there), and
\* applying any transaction whose digest is in the applied log returns the
\* duplicate error and leaves every account as it was.
C2_NoDigestAcceptedTwice ==
    /\ \A pk \in DOMAIN ledger.account_transactions :
           NoRepeats(ledger.account_transactions[pk])
    /\ \A tx \in TxInputs :
           isDuplicate(ledger, hashTransaction(tx)) =>
               LET r == applyTransaction(ledger, tx, now)
               IN  r.result = DuplicateError /\ r.state.accounts = ledger.accounts

\* an accepted transfer that raised its sender's nonce was applied again and
\* rejected as a duplicate
C2_Witness ==
    /\ lastOp = "applyTransaction"
    /\ result = DuplicateError
    /\ \E d \in DOMAIN ledger.transactions :
          /\ d.type = "transfer"
          /\ d.from \in DOMAIN ledger.accounts
          /\ ledger.accounts[d.from].nonce = 1
          /\ ledger.account_transactions[d.from] = <<d>>

\* C3 (as claimed): every account's nonce equals the number of accepted
\* transactions, of any type, that it sent.
C3_NonceCountsAcceptedTransactions ==
    \A pk \in DOMAIN ledger.accounts :
        ledger.accounts[pk].nonce =
            Cardinality({h \in DOMAIN ledger.transactions :
                            ledger.transactions[h].from = pk})

\* C4 (as claimed): every accepted transfer lowers the sender's balance by
\* amount + fee and raises the recipient's by amount (net -fee when they are
\* the same account), the total supply falls by exactly the fee, and no
\* other account's balance changes.
C4_TransferConservesBalances ==
    [][\A h \in NewDigests :
          LET stx == ledger'.transactions[h]
              bal(pk) == ledger.accounts[pk].balance
              bal2(pk) == ledger'.accounts[pk].balance
          IN  stx.type = "transfer" =>
                /\ TotalSupply(ledger') = TotalSupply(ledger) - transaction_fee
                /\ stx.to \in DOMAIN ledger.accounts
                /\ IF stx.to = stx.from
                   THEN bal2(stx.from) = bal(stx.from) - transaction_fee
                   ELSE /\ bal2(stx.from) = bal(stx.from) - stx.amount - transaction_fee
                        /\ bal2(stx.to) = bal(stx.to) + stx.amount
                /\ \A pk \in DOMAIN ledger.accounts \ {stx.from, stx.to} :
                       bal2(pk) = bal(pk)]_vars

\* C5 (as claimed): every account's balance is non-negative in every
\* reachable ledger state.
C5_BalancesNonNegative ==
    \A pk \in DOMAIN ledger.accounts : ledger.accounts[pk].balance >= 0

----------------------------------------------------------------------------
(* The marketplace over its ledger and identity manager: operations as actions *)

MarketKeys == {"a", "b"}
MarketBalances == {0, 5}
ListPrices == {2}
SkillInputs ==
    {[name |-> "s1", description |-> "d", version |-> "1.0.0", type |-> "skill",
      files |-> <<[path |-> "index.js", content |-> "x=1"],
                  [path |-> "README.md", content |-> "doc"]>>,
      dependencies |-> << >>, license |-> "MIT", entry_point |-> NoEntry]}
\* the skill ids callers pass: the id of every skill input
SkillIds ==
    {hashData(manifestOf(in.name, in.description, in.version, in.type,
                         [i \in DOMAIN in.files |->
                             [path |-> in.files[i].path,
                              hash |-> hashData(in.files[i].content)]],
                         in.dependencies, in.license, in.entry_point)) :
        in \in SkillInputs}

MarketCreateAccount ==
    \E pk \in MarketKeys, b \in MarketBalances :
        LET r == createAccount(ledger, pk, b, now) IN
        /\ ledger' = r.state
        /\ result' = r.result
        /\ lastOp' = "createAccount"
        /\ UNCHANGED <<now, marketVars, pbftVars, ioVars>>

CreateWallet ==
    \E pk \in MarketKeys \ DOMAIN identity.bots :
        /\ identity' = createWallet(identity, pk, now)
        /\ result' = Ok
        /\ lastOp' = "createWallet"
        /\ UNCHANGED <<now, ledger, storage, pbftVars, ioVars>>

CreateSkill ==
    \E in \in SkillInputs, creator \in MarketKeys :
        LET r == createSkill(storage, identity, in, creator, now) IN
        /\ storage' = r.storage
        /\ identity' = r.identity
        /\ result' = r.result
        /\ lastOp' = "createSkill"
        /\ UNCHANGED <<now, ledger, pbftVars, ioVars>>

ListSkill ==
    \E id \in SkillIds, price \in ListPrices, seller \in MarketKeys :
        LET r == listSkill(storage, id, price, seller, now) IN
        /\ storage' = r.storage
        /\ result' = r.result
        /\ lastOp' = "listSkill"
        /\ UNCHANGED <<now, ledger, identity, pbftVars, ioVars>>

DelistSkill ==
    \E id \in SkillIds, seller \in MarketKeys :
        LET r == delistSkill(storage, id, seller) IN
        /\ storage' = r.storage
        /\ result' = r.result
        /\ lastOp' = "delistSkill"
        /\ UNCHANGED <<now, ledger, identity, pbftVars, ioVars>>

PurchaseSkill ==
    /\ Cardinality(DOMAIN ledger.transactions) < MaxTx
    /\ \E id \in SkillIds, buyer \in MarketKeys :
       \E key \in {buyer, Attacker} :
        LET r == purchaseSkill(storage, ledger, identity, id, buyer, key, now) IN
        /\ storage' = r.storage
        /\ ledger' = r.ledger
        /\ identity' = r.identity
        /\ result' = r.result
        /\ lastOp' = "purchaseSkill"
        /\ UNCHANGED <<now, pbftVars, ioVars>>

MarketNext ==
    \/ Tick \/ MarketCreateAccount \/ CreateWallet \/ CreateSkill
    \/ ListSkill \/ DelistSkill \/ PurchaseSkill

SpecMarket == LedgerInit /\ [][MarketNext]_vars

----------------------------------------------------------------------------
(* Properties of the marketplace purchase path *)

\* the purchase records a step appends, over all skills
NewPurchases ==
    UNION {{storage'.purchases[id][i] :
              i \in (IF id \in DOMAIN storage.purchases
                     THEN Len(storage.purchases[id]) ELSE 0) + 1
                    .. Len(storage'.purchases[id])} :
           id \in DOMAIN storage'.purchases}

\* C6 (as claimed): a successful purchaseSkill at listing price p debits the
\* buyer's ledger balance by p + fee, credits the seller's by p (net -fee for
\* a buyer who is the seller) and advances the buyer's nonce by 1.
C6_PurchaseMovesValueLikeTransfer ==
    [][\A pur \in NewPurchases :
          LET bal(pk) == ledger.accounts[pk].balance
              bal2(pk) == ledger'.accounts[pk].balance
          IN  /\ ledger'.accounts[pur.buyer].nonce =
                     ledger.accounts[pur.buyer].nonce + 1
              /\ IF pur.seller = pur.buyer
                 THEN bal2(pur.buyer) = bal(pur.buyer) - transaction_fee
                 ELSE /\ bal2(pur.buyer) =
                            bal(pur.buyer) - pur.price - transaction_fee
                      /\ pur.seller \in DOMAIN ledger.accounts
                      /\ bal2(pur.seller) = bal(pur.seller) + pur.price]_vars

----------------------------------------------------------------------------
(* Validators that share one membership: operations as actions.  The       *)
(* transport is outside the code: any message a validator has logged may   *)
(* be handed to its handler on any validator, in any order, also while a   *)
(* submitTransaction call of that validator waits at an await.             *)

ValSets == {{"v1"}, {"v1", "v2"}, {"v1", "v2", "v3", "v4"}}

\* every validator's ledger holds the sender and the recipient beforehand
PbftLedger ==
    createAccount(createAccount(EmptyLedger, "a", 5, 0).state, "b", 0, 0).state

\* <<from, to, amount, nonce>> of the transfers handed to submitTransaction:
\* two that the ledger takes, one from b, which cannot pay until it has been
\* paid, one with a nonce that is not yet due, one from a key with no account
PbftShapes ==
    {<<"a", "b", 1, 1>>, <<"a", "b", 2, 1>>, <<"b", "a", 1, 1>>,
     <<"a", "b", 1, 2>>, <<"c", "a", 1, 1>>}

PbftUnsigned ==
    {[version |-> 1, type |-> "transfer", from |-> sh[1], to |-> sh[2],
      amount |-> sh[3], nonce |-> sh[4], timestamp |-> 7, data |-> NoData] :
        sh \in PbftShapes}

PbftTxs ==
    {WithSignature(tx, signTransaction(tx, tx.from)) : tx \in PbftUnsigned}
    \cup {WithSignature(tx, signTransaction(tx, Attacker)) :
            tx \in {u \in PbftUnsigned : u.amount = 1 /\ u.from = "a" /\ u.nonce = 1}}

\* the transactions submitTransaction has accepted so far, per validator
Accepted ==
    {<<v, d>> \in (DOMAIN validators) \X {hashTransaction(tx) : tx \in PbftTxs} :
        d \in DOMAIN validators[v].pending
        \/ d \in DOMAIN validators[v].ledger.transactions}

\* the messages validators have logged
Logged ==
    UNION {{validators[v].message_log[i] :
              i \in DOMAIN validators[v].message_log} : v \in DOMAIN validators}

\* the transport hands a handler the logged messages of the type it handles
LoggedOfType(type) == {m \in Logged : m.type = type}

\* the callbacks a caller registers
Callbacks == {"cb1", "cb2"}

nextToApply_newest(waiting) == waiting[Len(waiting)]

\* the commitTransaction calls run the same awaits, none of which waits for
\* I/O, up to the ledger's mutation (part_006:284, ledger.ts:141-158): they
\* get there in the order they were started
nextToApply(waiting) == Head(waiting)
remove(waiting, c) ==
    LET i == CHOOSE k \in DOMAIN waiting : waiting[k] = c
    IN  SubSeq(waiting, 1, i - 1) \o SubSeq(waiting, i + 1, Len(waiting))

PBFTInit ==
    /\ \E S \in ValSets :
          validators = [v \in S |-> newValidator(configOf(v, S), PbftLedger)]
    /\ deliveries = 0
    /\ suspended = [v \in DOMAIN validators |-> {}]
    /\ applying = [v \in DOMAIN validators |-> << >>]
    /\ calls = [v \in DOMAIN validators |-> << >>]
    /\ ledger = EmptyLedger
    /\ now = 0
    /\ lastOp = "constructor"
    /\ result = Ok
    /\ storage = EmptyStorage
    /\ identity = EmptyIdentity
    /\ NoInstance

\* a call that took validator v from validators[v] to N2 waits, where it
\* reached a commit quorum, for its commitTransaction
Await(v, N2, caller) ==
    LET reached == reachedQuorum(validators[v], N2) IN
    applying' = [applying EXCEPT ![v] =
        IF reached = {} THEN @
        ELSE LET d == CHOOSE x \in reached : TRUE
             IN  Append(@, [tx_hash |-> d, tx |-> N2.pending[d].tx,
                            caller |-> caller])]

OnCommit ==
    \E v \in DOMAIN validators, callback \in Callbacks :
        /\ Len(validators[v].on_commit_callbacks) < MaxCallbacks
        /\ validators' = [validators EXCEPT ![v] = onCommit(@, callback)]
        /\ UNCHANGED <<deliveries, suspended, applying, calls, ledger, now,
                       lastOp, result, marketVars, ioVars>>

SubmitTransaction ==
    /\ Cardinality(Accepted) < MaxSubmits
    /\ \E v \in DOMAIN validators, tx \in PbftTxs :
        LET r == submitTransaction(validators[v], tx, now) IN
        /\ validators' = [validators EXCEPT ![v] = r.node]
        /\ suspended' = [suspended EXCEPT ![v] = @ \cup r.awaiting]
        /\ IF r.awaiting = {}
           THEN result' = r.result /\ lastOp' = "submitTransaction"
           ELSE UNCHANGED result /\ lastOp' = "await signMessage"
        /\ UNCHANGED <<deliveries, applying, calls, ledger, now, marketVars, ioVars>>

\* a suspended submitTransaction goes on after its await; it returns unless
\* it reached the commit quorum
ResumeSubmitTransaction ==
    \E v \in DOMAIN validators : \E message \in suspended[v] :
        LET N2 == sendPrePrepare(validators[v], message, now) IN
        /\ validators' = [validators EXCEPT ![v] = N2]
        /\ suspended' = [suspended EXCEPT ![v] = @ \ {message}]
        /\ Await(v, N2, "submitTransaction")
        /\ IF reachedQuorum(validators[v], N2) = {}
           THEN result' = Ok /\ lastOp' = "submitTransaction"
           ELSE UNCHANGED result /\ lastOp' = "await applyTransaction"
        /\ UNCHANGED <<deliveries, calls, ledger, now, marketVars, ioVars>>

\* the oldest waiting commitTransaction applies its transaction, erases the
\* digest and invokes the callbacks; then the call that reached the quorum
\* returns
ResumeCommitTransaction ==
    \E v \in DOMAIN validators :
        /\ applying[v] # << >>
        /\ LET c == nextToApply(applying[v])
               N == validators[v]
               N2 == commitTransaction(N, c.tx_hash, c.tx, now)
               success == applyTransaction(N.ledger, c.tx, now).result.success
           IN  /\ validators' = [validators EXCEPT ![v] = N2]
               /\ applying' = [applying EXCEPT ![v] = remove(@, c)]
               /\ calls' = [calls EXCEPT ![v] = @ \o invokeCallbacks(N, c.tx, success)]
               /\ IF c.caller = "submitTransaction"
                  THEN result' = Ok /\ lastOp' = "submitTransaction"
                  ELSE UNCHANGED <<result, lastOp>>
        /\ UNCHANGED <<deliveries, suspended, ledger, now, marketVars, ioVars>>

DeliverPrePrepare ==
    /\ deliveries < MaxDeliveries
    /\ \E w \in DOMAIN validators, m \in LoggedOfType("pre-prepare") :
        LET N2 == handlePrePrepare(validators[w], m, now) IN
        /\ validators' = [validators EXCEPT ![w] = N2]
        /\ Await(w, N2, "handlePrePrepare")
        /\ deliveries' = deliveries + 1
        /\ UNCHANGED <<suspended, calls, ledger, now, lastOp, result, marketVars, ioVars>>

DeliverPrepare ==
    /\ deliveries < MaxDeliveries
    /\ \E w \in DOMAIN validators, m \in LoggedOfType("prepare") :
        LET N2 == handlePrepare(validators[w], m, now) IN
        /\ validators' = [validators EXCEPT ![w] = N2]
        /\ Await(w, N2, "handlePrepare")
        /\ deliveries' = deliveries + 1
        /\ UNCHANGED <<suspended, calls, ledger, now, lastOp, result, marketVars, ioVars>>

DeliverCommit ==
    /\ deliveries < MaxDeliveries
    /\ \E w \in DOMAIN validators, m \in LoggedOfType("commit") :
        LET N2 == handleCommit(validators[w], m, now) IN
        /\ validators' = [validators EXCEPT ![w] = N2]
        /\ Await(w, N2, "handleCommit")
        /\ deliveries' = deliveries + 1
        /\ UNCHANGED <<suspended, calls, ledger, now, lastOp, result, marketVars, ioVars>>

PBFTNext ==
    \/ SubmitTransaction
    \/ ResumeSubmitTransaction
    \/ ResumeCommitTransaction
    \/ DeliverPrePrepare
    \/ DeliverPrepare
    \/ DeliverCommit

SpecPBFT == PBFTInit /\ [][PBFTNext]_vars

\* one validator without peers, with callbacks registered on it
SoloInit ==
    /\ validators = [v \in {"v1"} |-> newValidator(configOf(v, {"v1"}), PbftLedger)]
    /\ deliveries = 0
    /\ suspended = [v \in DOMAIN validators |-> {}]
    /\ applying = [v \in DOMAIN validators |-> << >>]
    /\ calls = [v \in DOMAIN validators |-> << >>]
    /\ ledger = EmptyLedger
    /\ now = 0
    /\ lastOp = "constructor"
    /\ result = Ok
    /\ storage = EmptyStorage
    /\ identity = EmptyIdentity
    /\ NoInstance

SoloNext == OnCommit \/ PBFTNext

SpecSolo == SoloInit /\ [][SoloNext]_vars

\* validators whose clock advances while transactions wait for votes
TimeoutNext ==
    \/ Tick
    \/ SubmitTransaction
    \/ ResumeSubmitTransaction
    \/ ResumeCommitTransaction

SpecTimeout == PBFTInit /\ [][TimeoutNext]_vars

----------------------------------------------------------------------------
(* Properties of the consensus module *)

\* the Byzantine bound and quorum of the shared membership
FaultBound == (Cardinality(DOMAIN validators) - 1) \div 3
Quorum == 2 * FaultBound + 1

\* <<view, sequence, digest>> for every digest validator v has applied to its
\* ledger, with the view and sequence of the PRE-PREPARE v accepted for it
CommittedAt(v) ==
    {<<m.view, m.sequence, m.digest>> :
        m \in {validators[v].message_log[i] :
                 i \in {j \in DOMAIN validators[v].message_log :
                          /\ validators[v].message_log[j].type = "pre-prepare"
                          /\ validators[v].message_log[j].digest
                                \in DOMAIN validators[v].ledger.transactions}}}

\* the messages a step appends to v's log
NewlyLogged(v) ==
    {validators'[v].message_log[i] :
        i \in Len(validators[v].message_log) + 1
              .. Len(validators'[v].message_log)}

\* the digests a step applies to v's ledger
NewlyApplied(v) ==
    DOMAIN validators'[v].ledger.transactions
        \ DOMAIN validators[v].ledger.transactions

VotesFor(votes, d) == IF d \in DOMAIN votes THEN votes[d] ELSE {}

\* C7 (as claimed): across the validators of one membership, at most one
\* digest is committed for any (view, sequence).
C7_OneDigestPerViewAndSequence ==
    \A v, w \in DOMAIN validators :
        \A c1 \in CommittedAt(v), c2 \in CommittedAt(w) :
            (c1[1] = c2[1] /\ c1[2] = c2[2]) => c1[3] = c2[3]

\* C8 (as claimed): a validator emits COMMIT for a digest only with at least
\* 2f+1 distinct validators in its PREPARE set for that digest (read in the
\* state after the step, while the digest is still pending), and applies a
\* transaction only with at least 2f+1 distinct validators in its COMMIT
\* set.
C8_QuorumOfRecordedVotes ==
    [][\A v \in DOMAIN validators :
          /\ \A m \in NewlyLogged(v) :
                (m.type = "commit" /\ m.digest \in DOMAIN validators'[v].pending)
                    => Cardinality(VotesFor(validators'[v].state.prepared,
                                            m.digest)) >= Quorum
          /\ \A d \in NewlyApplied(v) :
                Cardinality(VotesFor(validators[v].state.committed, d))
                    >= Quorum]_vars

\* C9: a pending digest is marked prepared only if its PRE-PREPARE has been
\* recorded, and every COMMIT a validator has emitted follows, in its log, a
\* PRE-PREPARE for the same digest and view from the validator's leader.
C9_PreparedOnlyAfterPrePrepare ==
    \A v \in DOMAIN validators :
        LET N == validators[v] IN
        /\ \A d \in DOMAIN N.pending :
              N.pending[d].prepared => N.pending[d].pre_prepared
        /\ \A i \in DOMAIN N.message_log :
              N.message_log[i].type = "commit" =>
                  \E j \in 1..(i - 1) :
                      /\ N.message_log[j].type = "pre-prepare"
                      /\ N.message_log[j].digest = N.message_log[i].digest
                      /\ N.message_log[j].view = N.message_log[i].view
                      /\ N.message_log[j].validator = N.state.leader_id

\* C10 (as claimed): in every view exactly one validator of the membership
\* has isLeader() true and every validator's getLeaderId() names it.
C10_SingleAgreedLeader ==
    \E l \in DOMAIN validators :
        \A v \in DOMAIN validators :
            /\ getLeaderId(validators[v]) = l
            /\ isLeader(validators[v]) <=> (v = l)

----------------------------------------------------------------------------
(* Properties of a validator's submissions, commits and callbacks *)

\* the submitTransaction calls of v that return in this step after their
\* commitTransaction
ReturningSubmits(v) ==
    IF Len(applying'[v]) < Len(applying[v])
       /\ nextToApply(applying[v]).caller = "submitTransaction"
    THEN {nextToApply(applying[v])} ELSE {}

\* the types of the messages of a log that carry digest d, in log order
TypesFor(log, d) ==
    LET of_d == SelectSeq(log, LAMBDA m : m.digest = d)
    IN  [i \in DOMAIN of_d |-> of_d[i].type]

SendersFor(log, d) ==
    {log[i].validator : i \in {j \in DOMAIN log : log[j].digest = d}}

\* C11 (as claimed): when submitTransaction returns on a validator with no
\* peers for a transfer the ledger takes, no other call of the validator is
\* in flight and no message was ever handed to it (it has no peer to receive
\* from), the ledger holds the transfer with
\* the balances moved, no transaction is pending, and the log holds for the
\* digest exactly PRE-PREPARE, PREPARE, COMMIT, all from this validator.
C11_SoloSubmitCommitsBeforeReturning ==
    [][\A v \in DOMAIN validators : \A c \in ReturningSubmits(v) :
          LET N == validators[v]
              applied == applyTransaction(N.ledger, c.tx, now)
          IN  (/\ Len(N.config.peers) = 0
               /\ applied.result.success
               /\ suspended'[v] = {} /\ applying'[v] = << >>
               /\ deliveries = 0) =>
                  /\ validators'[v].ledger = applied.state
                  /\ c.tx_hash \in DOMAIN validators'[v].ledger.transactions
                  /\ validators'[v].pending = << >>
                  /\ TypesFor(validators'[v].message_log, c.tx_hash)
                        = <<"pre-prepare", "prepare", "commit">>
                  /\ SendersFor(validators'[v].message_log, c.tx_hash) = {v}]_vars

\* the commitTransaction call of v that completes in this step
CompletingCommits(v) ==
    IF Len(applying'[v]) < Len(applying[v])
    THEN {nextToApply(applying[v])} ELSE {}

\* C12 (as claimed): when the commitTransaction a commit quorum started has
\* completed, the transaction is in the ledger's applied log and its digest
\* is in neither the pending set nor the PREPARE or COMMIT vote map.
C12_QuorumAppliesAndErases ==
    [][\A v \in DOMAIN validators : \A c \in CompletingCommits(v) :
          /\ c.tx_hash \in DOMAIN validators'[v].ledger.transactions
          /\ c.tx_hash \notin DOMAIN validators'[v].pending
          /\ c.tx_hash \notin DOMAIN validators'[v].state.prepared
          /\ c.tx_hash \notin DOMAIN validators'[v].state.committed]_vars

\* the invocations of every callback registered on N, in registration order,
\* with each transaction of txs
EachCallbackOnce(N, txs) ==
    IF txs = {} THEN << >>
    ELSE [i \in DOMAIN N.on_commit_callbacks |->
             [callback |-> N.on_commit_callbacks[i],
              tx |-> CHOOSE tx \in txs : TRUE]]

MustReject(N, tx) ==
    \/ hashTransaction(tx) \in DOMAIN N.pending
    \/ ~verifySignature(hashTransaction(tx), tx.signature, tx.from)
    \/ tx.from \notin DOMAIN N.ledger.accounts
    \/ tx.nonce # N.ledger.accounts[tx.from].nonce + 1

\* the transactions a step adds to v's pending set
NewlyPending(v) ==
    {validators'[v].pending[d].tx :
        d \in DOMAIN validators'[v].pending \ DOMAIN validators[v].pending}

\* C14: submitTransaction never accepts a transaction whose digest is
\* pending, whose signature is not its sender's, whose sender has no account
\* or whose nonce is not the sender's nonce + 1; and every step that returns
\* a refusal (no handler runs in it, no commitTransaction completes in it)
\* leaves every validator (pending set, vote maps, sequence number, message
\* log, ledger) as it was.
C14_SubmitRejectionsChangeNothing ==
    [][/\ \A v \in DOMAIN validators : \A tx \in NewlyPending(v) :
             ~MustReject(validators[v], tx)
       /\ (/\ lastOp' = "submitTransaction" /\ ~result'.success
           /\ deliveries' = deliveries /\ applying' = applying) =>
             UNCHANGED <<validators, suspended, calls>>]_vars

\* in a membership of four, a validator that holds a pending transaction and
\* has logged messages refused a second submission of the pending digest
C14_Witness ==
    /\ lastOp = "submitTransaction"
    /\ result = Err("Transaction already pending")
    /\ Cardinality(DOMAIN validators) = 4
    /\ \E v \in DOMAIN validators :
          validators[v].pending # << >> /\ validators[v].message_log # << >>

\* C15 (as claimed): a validator on which a transaction has been pending for
\* view_timeout_ms has left view 0, its leader is the one elected for its
\* view, and the transaction is still pending.
C15_TimeoutAdvancesView ==
    \A v \in DOMAIN validators :
        LET N == validators[v] IN
        (\E d \in DOMAIN N.pending :
            now - N.pending[d].received_at >= N.config.view_timeout_ms)
        => /\ N.state.view >= 1
           /\ N.state.leader_id = electLeader(N.config, N.state.view)

redeliver(N, m, t) ==
    IF m.type = "prepare" THEN handlePrepare(N, m, t) ELSE handleCommit(N, m, t)

\* C17 (as claimed): a validator has handled every PREPARE and COMMIT of its
\* own log (it handles each when it broadcasts it); handing it such a message
\* again, in any state, leaves both vote maps and the message log as they are
\* and reaches no commit quorum, so that nothing is applied and no callback
\* is invoked.
C17_RedeliveryIsIdempotent ==
    \A v \in DOMAIN validators :
        LET N == validators[v] IN
        \A i \in DOMAIN N.message_log :
            LET m == N.message_log[i]
                N2 == redeliver(N, m, now)
            IN  m.type \in {"prepare", "commit"} =>
                    /\ N2.state.prepared = N.state.prepared
                    /\ N2.state.committed = N.state.committed
                    /\ N2.message_log = N.message_log
                    /\ reachedQuorum(N, N2) = {}

----------------------------------------------------------------------------
(* Properties of the ledger's acceptance checks *)

\* C18: every transaction a step adds to the applied log carries a signature
\* that verifies against its digest and its `from` key, comes from an
\* existing account and had nonce = sender.nonce + 1 in the state it was
\* applied to; and in no state does the ledger accept a transaction, of any
\* type, that was signed with a key other than its sender's.
C18_AppliedAreSignedAndInSequence ==
    /\ [][\A h \in NewDigests :
             LET stx == ledger'.transactions[h] IN
             /\ h = hashTransaction(stx)
             /\ verifySignature(h, stx.signature, stx.from)
             /\ stx.from \in DOMAIN ledger.accounts
             /\ stx.nonce = ledger.accounts[stx.from].nonce + 1]_vars
    /\ [](\A tx \in TxInputs :
             tx.signature.signer # tx.from =>
                 LET r == applyTransaction(ledger, tx, now)
                 IN  ~r.result.success /\ r.state = ledger)

\* the ledger refused a signature after it had accepted a transaction that
\* is no transfer, and a transaction of that type with the right nonce and a
\* foreign signature is refused for its signature
C18_Witness ==
    /\ lastOp = "applyTransaction"
    /\ result = Err("Invalid transaction signature")
    /\ \E h \in DOMAIN ledger.transactions : h.type # "transfer"
    /\ \E tx \in TxInputs :
          /\ tx.type # "transfer"
          /\ tx.signature.signer = Attacker
          /\ applyTransaction(ledger, tx, now).result = Err("Invalid transaction signature")

\* C19 (as claimed): every transfer in the applied log names a recipient
\* whose account exists (accounts are never removed), so that a transfer
\* without a recipient or to an unknown one is never logged.
C19_LoggedTransfersNameExistingRecipient ==
    \A h \in DOMAIN ledger.transactions :
        ledger.transactions[h].type = "transfer" =>
            ledger.transactions[h].to \in DOMAIN ledger.accounts

\* the outcome the claimed order of checks gives: the error of the first
\* check that fails (duplicate digest, unknown sender, nonce mismatch,
\* invalid signature, economic constraints, unknown recipient), Ok when
\* none fails
FirstFailure(L, tx) ==
    IF hashTransaction(tx) \in DOMAIN L.transactions
    THEN Err("Transaction already exists (duplicate)")
    ELSE IF tx.from \notin DOMAIN L.accounts
    THEN Err("Sender account not found")
    ELSE IF tx.nonce # L.accounts[tx.from].nonce + 1
    THEN ErrNonce(L.accounts[tx.from].nonce + 1)
    ELSE IF ~(tx.signature.signer = tx.from /\ tx.signature.msg = hashTransaction(tx))
    THEN Err("Invalid transaction signature")
    ELSE IF ~validateEconomicConstraints(tx, L.accounts[tx.from].balance).valid
    THEN Err(validateEconomicConstraints(tx, L.accounts[tx.from].balance).error)
    ELSE IF tx.type = "transfer" /\ tx.to # NoKey /\ tx.to \notin DOMAIN L.accounts
    THEN Err("Recipient account not found")
    ELSE Ok

\* C20: in every reachable ledger state and for every transaction,
\* applyTransaction returns the error of the first failing check in the order
\* duplicate digest, unknown sender, nonce mismatch, invalid signature,
\* economic constraints, unknown recipient, and succeeds when none fails.
C20_FirstFailingCheckIsReported ==
    \A tx \in TxInputs :
        applyTransaction(ledger, tx, now).result = FirstFailure(ledger, tx)

\* a call was refused for its nonce, in a state where a transaction with
\* a wrong nonce and a forged signature gets the nonce error and a transfer
\* above the sender's balance to an unknown recipient gets the balance error
C20_Witness ==
    /\ lastOp = "applyTransaction"
    /\ ~result.success /\ result.error = "Invalid nonce"
    /\ \E tx \in TxInputs :
          /\ tx.from \in DOMAIN ledger.accounts
          /\ tx.nonce # ledger.accounts[tx.from].nonce + 1
          /\ tx.signature.signer = Attacker
          /\ applyTransaction(ledger, tx, now).result = result
    /\ \E tx \in TxInputs :
          /\ tx.type = "transfer" /\ tx.to \notin DOMAIN ledger.accounts \cup {NoKey}
          /\ tx.from \in DOMAIN ledger.accounts
          /\ ledger.accounts[tx.from].balance < tx.amount + transaction_fee
          /\ applyTransaction(ledger, tx, now).result = Err("Insufficient balance")

----------------------------------------------------------------------------
(* The marketplace with its reviews: operations as actions *)

Ratings == {2, 6}

AddReview ==
    \E id \in SkillIds, reviewer \in MarketKeys, rating \in Ratings :
        /\ id \in DOMAIN storage.listings =>
               Len(storage.listings[id].reviews) < MaxReviews
        /\ LET r == addReview(storage, id, reviewer, rating, "ok", now) IN
            /\ storage' = r.storage
            /\ result' = r.result
            /\ lastOp' = "addReview"
            /\ UNCHANGED <<now, ledger, identity, pbftVars, ioVars>>

ShopNext ==
    \/ Tick \/ MarketCreateAccount \/ CreateSkill \/ ListSkill \/ DelistSkill
    \/ PurchaseSkill \/ AddReview

SpecShop == LedgerInit /\ [][ShopNext]_vars

----------------------------------------------------------------------------
(* Properties of the marketplace's storage *)

EvilFile == [path |-> "evil.js", content |-> "evil", hash |-> hashData("evil")]

\* the records that differ from a stored skill in a file's content or in
\* manifest fields (name, description, version, type, the files' paths and
\* hashes, dependencies, license, entry_point) and keep its manifest_hash
Tampered(skill) ==
    {[skill EXCEPT !.name = "evil"], [skill EXCEPT !.description = "evil"],
     [skill EXCEPT !.version = "6.6.6"], [skill EXCEPT !.type = "service"],
     [skill EXCEPT !.dependencies = <<"evil">>],
     [skill EXCEPT !.license = "proprietary"],
     [skill EXCEPT !.entry_point = "evil.js"],
     [skill EXCEPT !.files = Append(@, EvilFile)],
     [skill EXCEPT !.files = Tail(@)]}
    \cup {[skill EXCEPT !.files[i].content = "evil"] : i \in DOMAIN skill.files}
    \cup {[skill EXCEPT !.files[i].path = "evil.js"] : i \in DOMAIN skill.files}
    \cup {[skill EXCEPT !.files[i].hash = hashData("evil")] : i \in DOMAIN skill.files}
    \cup {[skill EXCEPT !.files[i] = EvilFile] : i \in DOMAIN skill.files}
    \cup {[skill EXCEPT !.files[i].content = "evil",
                        !.files[i].hash = hashData("evil")] : i \in DOMAIN skill.files}

\* C21: every stored skill is stored under its id, which is its
\* manifest_hash and the hash of the manifest built from its stored fields,
\* every file's stored hash is the hash of its stored content, and verifySkill
\* returns valid; verifySkill returns invalid for every record that differs
\* from a stored skill in a file's content or in a manifest field.
C21_StoredSkillsVerify ==
    \A id \in DOMAIN storage.skills :
        LET skill == storage.skills[id] IN
        /\ skill.id = id
        /\ skill.manifest_hash = id
        /\ id = hashData(manifestOf(skill.name, skill.description, skill.version,
                                    skill.type, skill.files, skill.dependencies,
                                    skill.license, skill.entry_point))
        /\ \A i \in DOMAIN skill.files :
               skill.files[i].hash = hashData(skill.files[i].content)
        /\ verifySkill(storage, id).valid
        /\ \A t \in Tampered(skill) :
               t # skill /\ ~verifySkill([storage EXCEPT !.skills[id] = t], id).valid

\* a skill of two files that was listed, bought, reviewed and delisted
C21_Witness ==
    \E id \in DOMAIN storage.skills :
        /\ id \in DOMAIN storage.listings
        /\ storage.listings[id].status = "delisted"
        /\ storage.listings[id].reviews # << >>
        /\ id \in DOMAIN storage.purchases
        /\ Len(storage.skills[id].files) = 2

\* C22: a step records a purchase only for a skill whose listing is active
\* before the step; and in every state every purchaseSkill for a skill whose
\* listing is not active fails and leaves the purchases, the listings, the
\* ledger and the identities as they are.
C22_PurchaseOnlyWhileActive ==
    /\ [][\A pur \in NewPurchases :
             /\ pur.skill_id \in DOMAIN storage.listings
             /\ storage.listings[pur.skill_id].status = "active"]_vars
    /\ [](\A id \in SkillIds :
             (id \in DOMAIN storage.listings /\ storage.listings[id].status # "active") =>
                 \A buyer \in MarketKeys, key \in MarketKeys \cup {Attacker} :
                     LET r == purchaseSkill(storage, ledger, identity, id, buyer, key, now)
                     IN  /\ ~r.result.success
                         /\ r.storage = storage
                         /\ r.ledger = ledger
                         /\ r.identity = identity)

\* a purchase was refused for a delisted skill that had been sold before,
\* to a buyer whose account holds the price
C22_Witness ==
    /\ lastOp = "purchaseSkill"
    /\ result = Err("Skill not available for purchase")
    /\ \E id \in DOMAIN storage.listings :
          /\ storage.listings[id].status = "delisted"
          /\ storage.listings[id].sales_count = 1
          /\ \E buyer \in DOMAIN ledger.accounts :
                 ledger.accounts[buyer].balance >= storage.listings[id].price

\* C23: every listing is of a stored skill and its seller is that skill's
\* creator; listSkill by anyone else fails and leaves the storage as it is.
C23_SellerIsCreator ==
    /\ \A id \in DOMAIN storage.listings :
           /\ id \in DOMAIN storage.skills
           /\ storage.listings[id].seller = storage.skills[id].created_by
    /\ \A id \in DOMAIN storage.skills, seller \in MarketKeys, price \in ListPrices :
           seller # storage.skills[id].created_by =>
               LET r == listSkill(storage, id, price, seller, now)
               IN  r.result = Err("Only creator can list skill") /\ r.storage = storage

\* listSkill was refused while the skill was listed by its creator
C23_Witness ==
    /\ lastOp = "listSkill"
    /\ result = Err("Only creator can list skill")
    /\ \E id \in DOMAIN storage.listings : storage.listings[id].status = "active"

\* C24: the reviewer of every review stored on a listing is the buyer of a
\* recorded purchase of that skill; addReview by anyone who is not fails and
\* leaves the storage, reviews and rating included, as it is.
C24_ReviewersAreBuyers ==
    /\ \A id \in DOMAIN storage.listings :
           \A i \in DOMAIN storage.listings[id].reviews :
               /\ id \in DOMAIN storage.purchases
               /\ \E j \in DOMAIN storage.purchases[id] :
                      storage.purchases[id][j].buyer =
                          storage.listings[id].reviews[i].reviewer
    /\ \A id \in DOMAIN storage.listings, reviewer \in MarketKeys, rating \in Ratings :
           (\A j \in DOMAIN (IF id \in DOMAIN storage.purchases
                              THEN storage.purchases[id] ELSE << >>) :
                  storage.purchases[id][j].buyer # reviewer) =>
               LET r == addReview(storage, id, reviewer, rating, "ok", now)
               IN  r.result = Err("Only buyers can review") /\ r.storage = storage

\* a review was refused on a listing that holds a buyer's review
C24_Witness ==
    /\ lastOp = "addReview"
    /\ result = Err("Only buyers can review")
    /\ \E id \in DOMAIN storage.listings :
          /\ storage.listings[id].reviews # << >>
          /\ storage.listings[id].rating > 0

\* C25 (as claimed): the transaction_hash of every purchase record is a key
\* of the ledger's applied log, and getTransactionByHash returns for it the
\* skill_purchase transaction of that purchase.
C25_PurchaseHashFindsTransaction ==
    \A id \in DOMAIN storage.purchases :
        \A i \in DOMAIN storage.purchases[id] :
            LET pur == storage.purchases[id][i]
                tx == getTransactionByHash(ledger, pur.transaction_hash)
            IN  /\ tx # NoTransaction
                /\ tx.type = "skill_purchase"
                /\ tx.from = pur.buyer
                /\ tx.data.skill_id = pur.skill_id

----------------------------------------------------------------------------
(* Properties of the identities' reputation and registration *)

\* the skills a step adds to the marketplace
NewSkills == DOMAIN storage'.skills \ DOMAIN storage.skills

\* C26 (as claimed): for an identity that exists and is younger than one
\* month, every step that stores a skill it created raises its reputation by
\* 20 (one more created skill) and every step that records a purchase it
\* made raises its reputation by 10 (one more successful trade), so that the
\* reputation is 20*k + 10*t after k skills and t purchases.
C26_ReputationAccumulates ==
    [][\A pk \in DOMAIN identity.bots :
          now - identity.bots[pk].created_at < MonthTicks =>
              /\ \A id \in NewSkills :
                    storage'.skills[id].created_by = pk =>
                        identity'.bots[pk].reputation = identity.bots[pk].reputation + 20
              /\ \A pur \in NewPurchases :
                    pur.buyer = pk =>
                        identity'.bots[pk].reputation = identity.bots[pk].reputation + 10]_vars

\* the identity manager alone: operations as actions
ClockReadings == {1, 30}
BotKeys == MarketKeys \cup {"c"}
Stakes == {24, 25, 50}
Attestations == {"a", "c", NoAttestation}
ReputationParams == {[NoCounters EXCEPT !.skills_created = n] : n \in {4, 5}}

\* time passes between two calls
Elapse ==
    \E t \in ClockReadings :
        /\ t > now
        /\ now' = t
        /\ UNCHANGED <<ledger, lastOp, result, marketVars, pbftVars, ioVars>>

RegisterBot ==
    \E pk \in BotKeys, stake \in Stakes, attestation \in Attestations :
        /\ pk \in DOMAIN identity.bots =>
               Len(identity.bots[pk].attestations) < MaxAttestations
        /\ LET r == registerBot(identity, pk, stake, attestation, now) IN
            /\ identity' = r.identity
            /\ result' = r.result
            /\ lastOp' = "registerBot"
            /\ UNCHANGED <<now, ledger, storage, pbftVars, ioVars>>

UpdateReputation ==
    \E pk \in BotKeys, params \in ReputationParams :
        /\ identity' = updateReputation(identity, pk, params, now)
        /\ result' = Ok
        /\ lastOp' = "updateReputation"
        /\ UNCHANGED <<now, ledger, storage, pbftVars, ioVars>>

IdentityNext == Elapse \/ CreateWallet \/ RegisterBot \/ UpdateReputation

SpecIdentity == LedgerInit /\ [][IdentityNext]_vars

\* C27 (as claimed): in every state, registerBot with a stake below 50
\* succeeds only with a stake of at least 25 and an attester that is a known
\* identity with reputation >= 100 in that state, and a refused registerBot
\* leaves the identities as they are.
C27_ReducedStakeNeedsEligibleAttester ==
    \A pk \in BotKeys, stake \in Stakes, attestation \in Attestations :
        LET r == registerBot(identity, pk, stake, attestation, now) IN
        /\ (r.result.success /\ stake < STAKE_REQUIREMENTS.registration) =>
               /\ stake >= STAKE_REQUIREMENTS.attestation_reduction
               /\ attestation # NoAttestation
               /\ canAttest(identity, attestation)
        /\ ~r.result.success => r.identity = identity

\* C28 (as claimed): an identity whose stake lock, set by a successful
\* registerBot, has not expired is registered.
C28_RegisteredWhileLocked ==
    \A pk \in DOMAIN identity.bots :
        identity.bots[pk].stake_locked_until > now => isRegistered(identity, pk, now)

----------------------------------------------------------------------------
(* Properties of the ledger's per-account indices and queries *)

HistoryLimits == 0..2

\* the applied_at under which the ledger stored a returned transaction
appliedAt(tx) == ledger.transactions[hashTransaction(tx)].applied_at

Min(x, y) == IF x <= y THEN x ELSE y

\* C29 (as claimed): for every key and every limit >= 0,
\* getTransactionHistory returns at most `limit` transactions, no older one
\* before a newer one, and they are the last `limit` digests of the key's
\* index (all of them when the index is shorter).
C29_HistoryIsNewestLimit ==
    \A pk \in Keys, limit \in HistoryLimits :
        LET h == getTransactionHistory(ledger, pk, limit)
            idx == IF pk \in DOMAIN ledger.account_transactions
                   THEN ledger.account_transactions[pk] ELSE << >>
            n == Min(limit, Len(idx))
        IN  /\ Len(h) <= limit
            /\ \A i, j \in DOMAIN h : i < j => appliedAt(h[i]) >= appliedAt(h[j])
            /\ {hashTransaction(h[i]) : i \in DOMAIN h} =
                   {idx[i] : i \in (Len(idx) - n + 1)..Len(idx)}

\* how often digest h stands in the index of key pk
Occurrences(L, pk, h) ==
    IF pk \notin DOMAIN L.account_transactions THEN 0
    ELSE Cardinality({i \in DOMAIN L.account_transactions[pk] :
                         L.account_transactions[pk][i] = h})

\* C30 (as claimed): the digest of every accepted transaction stands exactly
\* once in its sender's index and exactly once in its recipient's index when
\* the recipient is a different account, every index is in acceptance order
\* (no transaction before one applied earlier), and every digest of an index
\* is a key of the applied log.
C30_IndicesMatchAppliedLog ==
    /\ \A h \in DOMAIN ledger.transactions :
           LET stx == ledger.transactions[h] IN
           /\ Occurrences(ledger, stx.from, h) = 1
           /\ (stx.to \in DOMAIN ledger.accounts /\ stx.to # stx.from) =>
                  Occurrences(ledger, stx.to, h) = 1
    /\ \A pk \in DOMAIN ledger.account_transactions :
           LET idx == ledger.account_transactions[pk] IN
           /\ \A i \in DOMAIN idx : idx[i] \in DOMAIN ledger.transactions
           /\ \A i, j \in DOMAIN idx :
                  i < j => ledger.transactions[idx[i]].applied_at
                               <= ledger.transactions[idx[j]].applied_at

----------------------------------------------------------------------------
(* Further properties of the marketplace's listings *)

\* C32 (as claimed): every stored review's rating is an integer from 1 to 5,
\* and so is the aggregate rating of every listing that has a review.
C32_RatingsWithinOneToFive ==
    \A id \in DOMAIN storage.listings :
        LET listing == storage.listings[id] IN
        /\ \A i \in DOMAIN listing.reviews : listing.reviews[i].rating \in 1..5
        /\ listing.reviews # << >> => (listing.rating >= 1 /\ listing.rating <= 5)

\* C37 (as claimed): a listing's sales_count is the number of purchase
\* records stored for its skill, also after the skill was delisted and
\* listed again.
C37_SalesCountMatchesPurchases ==
    \A id \in DOMAIN storage.listings :
        storage.listings[id].sales_count =
            (IF id \in DOMAIN storage.purchases THEN Len(storage.purchases[id]) ELSE 0)

----------------------------------------------------------------------------
(* Further properties of the ledger's applied log *)

IsPrefix(s, t) == Len(s) <= Len(t) /\ SubSeq(t, 1, Len(s)) = s

\* C38 (as claimed): every step leaves every record of the applied log
\* present and unchanged, and every per-account index a prefix of what it is
\* after the step: nothing is removed from an index or reordered in it.
C38_LogAndIndicesOnlyGrow ==
    [][/\ \A h \in DOMAIN ledger.transactions :
             /\ h \in DOMAIN ledger'.transactions
             /\ ledger'.transactions[h] = ledger.transactions[h]
       /\ \A pk \in DOMAIN ledger.account_transactions :
             /\ pk \in DOMAIN ledger'.account_transactions
             /\ IsPrefix(ledger.account_transactions[pk],
                         ledger'.account_transactions[pk])]_vars

----------------------------------------------------------------------------
(* Further properties of a validator's messages *)

\* the messages in the log of validator v
Emitted(v) ==
    {validators[v].message_log[i] : i \in DOMAIN validators[v].message_log}

\* C35 (as claimed): the messages a validator emitted for one digest all
\* carry the same view and sequence, and no two PRE-PREPAREs it emitted for
\* different digests carry the same sequence.
C35_OneSequencePerDigest ==
    \A v \in DOMAIN validators :
        \A m1, m2 \in {m \in Emitted(v) : m.validator = v} :
            /\ m1.digest = m2.digest => (m1.view = m2.view /\ m1.sequence = m2.sequence)
            /\ (m1.type = "pre-prepare" /\ m2.type = "pre-prepare"
                /\ m1.digest # m2.digest) => m1.sequence # m2.sequence

----------------------------------------------------------------------------
(* Four validators and one transaction: the membership in which a quorum   *)
(* needs votes of other validators (f = 1, quorum 3).  The transport hands *)
(* over what validators logged and, besides, votes nobody of the           *)
(* membership signed.                                                      *)

MaxRelays == 4    \* messages the transport hands over

QuorumMembers == {"v1", "v2", "v3", "v4"}

QuorumTx ==
    LET tx == [version |-> 1, type |-> "transfer", from |-> "a", to |-> "b",
               amount |-> 1, nonce |-> 1, timestamp |-> 7, data |-> NoData]
    IN  WithSignature(tx, signTransaction(tx, tx.from))

\* a validator id that no configuration lists
Intruder == "v9"

\* votes for the transaction's digest that verifyMessage has to refuse: in
\* the name of a configured peer under the attacker's key, a peer's signature
\* of its PREPARE on a COMMIT, and votes a validator that is no peer signed
\* with its own key
ForgedVotes ==
    LET vote(type, id) ==
            [type |-> type, view |-> 0, sequence |-> 1,
             digest |-> hashTransaction(QuorumTx), validator |-> id,
             signature |-> EmptySig]
    IN  {[vote(type, "v2") EXCEPT !.signature = signMessage(vote(type, "v2"), Attacker)] :
            type \in {"prepare", "commit"}}
        \cup {[vote("commit", "v2") EXCEPT !.signature = signMessage(vote("prepare", "v2"), "v2")]}
        \cup {[vote(type, Intruder) EXCEPT !.signature = signMessage(vote(type, Intruder), Intruder)] :
                type \in {"prepare", "commit"}}

QuorumInit ==
    /\ validators = [v \in QuorumMembers |->
                        newValidator(configOf(v, QuorumMembers), PbftLedger)]
    /\ deliveries = 0
    /\ suspended = [v \in DOMAIN validators |-> {}]
    /\ applying = [v \in DOMAIN validators |-> << >>]
    /\ calls = [v \in DOMAIN validators |-> << >>]
    /\ ledger = EmptyLedger
    /\ now = 0
    /\ lastOp = "constructor"
    /\ result = Ok
    /\ storage = EmptyStorage
    /\ identity = EmptyIdentity
    /\ NoInstance

\* a client hands the transaction to a validator
SubmitQuorumTx ==
    \E v \in DOMAIN validators :
        LET r == submitTransaction(validators[v], QuorumTx, now) IN
        /\ validators' = [validators EXCEPT ![v] = r.node]
        /\ suspended' = [suspended EXCEPT ![v] = @ \cup r.awaiting]
        /\ IF r.awaiting = {}
           THEN result' = r.result /\ lastOp' = "submitTransaction"
           ELSE UNCHANGED result /\ lastOp' = "await signMessage"
        /\ UNCHANGED <<deliveries, applying, calls, ledger, now, marketVars, ioVars>>

RelayPrepare ==
    /\ deliveries < MaxRelays
    /\ \E w \in DOMAIN validators, m \in LoggedOfType("prepare") :
        LET N2 == handlePrepare(validators[w], m, now) IN
        /\ validators' = [validators EXCEPT ![w] = N2]
        /\ Await(w, N2, "handlePrepare")
        /\ deliveries' = deliveries + 1
        /\ UNCHANGED <<suspended, calls, ledger, now, lastOp, result, marketVars, ioVars>>

RelayCommit ==
    /\ deliveries < MaxRelays
    /\ \E w \in DOMAIN validators, m \in LoggedOfType("commit") :
        LET N2 == handleCommit(validators[w], m, now) IN
        /\ validators' = [validators EXCEPT ![w] = N2]
        /\ Await(w, N2, "handleCommit")
        /\ deliveries' = deliveries + 1
        /\ UNCHANGED <<suspended, calls, ledger, now, lastOp, result, marketVars, ioVars>>

\* a forged vote arrives at the handler of its type
RelayForged ==
    /\ deliveries < MaxRelays
    /\ \E w \in DOMAIN validators, m \in ForgedVotes :
        LET N2 == redeliver(validators[w], m, now) IN
        /\ validators' = [validators EXCEPT ![w] = N2]
        /\ Await(w, N2, "handleCommit")
        /\ deliveries' = deliveries + 1
        /\ lastOp' = "forged vote"
        /\ UNCHANGED <<suspended, calls, ledger, now, result, marketVars, ioVars>>

QuorumNext ==
    \/ SubmitQuorumTx
    \/ ResumeSubmitTransaction
    \/ ResumeCommitTransaction
    \/ RelayPrepare
    \/ RelayCommit
    \/ RelayForged

SpecQuorum == QuorumInit /\ [][QuorumNext]_vars

\* C34 (as claimed): a validator applies a transaction only while its
\* pending entry for the digest has `prepared` set, that is after the PREPARE
\* quorum for the digest was reached at this validator; COMMIT messages alone
\* do not lead to an application.
C34_AppliedOnlyAfterPrepared ==
    [][\A v \in DOMAIN validators : \A d \in NewlyApplied(v) :
          /\ d \in DOMAIN validators[v].pending
          /\ validators[v].pending[d].prepared]_vars

\* the ids validator N counts votes of: itself and its configured peers
membersOf(N) ==
    {N.config.validator_id} \cup {N.config.peers[i].id : i \in DOMAIN N.config.peers}

\* the votes of a type for digest d that their sender signed with its own key
SignedVoters(type, d) ==
    {m.validator : m \in {x \in LoggedOfType(type) :
        /\ x.digest = d
        /\ verifySignature([x EXCEPT !.signature = EmptySig], x.signature, x.validator)}}

\* C36: every id in a prepare or commit vote set of a validator is the
\* validator itself or one of its configured peers, and that member signed a
\* vote of that type for the digest with its own key; a vote under a key
\* that is not the named member's, or from an id the configuration does not
\* list, changes nothing at the validator it is handed to.
C36_VotesOnlyFromVerifiedMembers ==
    \A v \in DOMAIN validators :
        LET N == validators[v] IN
        /\ \A d \in DOMAIN N.state.prepared :
              N.state.prepared[d] \subseteq (membersOf(N) \cap SignedVoters("prepare", d))
        /\ \A d \in DOMAIN N.state.committed :
              N.state.committed[d] \subseteq (membersOf(N) \cap SignedVoters("commit", d))
        /\ \A m \in ForgedVotes : redeliver(N, m, now) = N

\* a forged vote was handed over while a validator that holds the digest
\* pending is one PREPARE short of the quorum and has no vote of the peer
\* the forgery names
C36_Witness ==
    /\ lastOp = "forged vote"
    /\ \E v \in DOMAIN validators :
          LET N == validators[v]
              d == hashTransaction(QuorumTx)
          IN  /\ d \in DOMAIN N.pending /\ ~N.pending[d].prepared
              /\ d \in DOMAIN N.state.prepared
              /\ voteCount(N.state.prepared, d) = quorumOf(N) - 1
              /\ "v2" \notin N.state.prepared[d]

----------------------------------------------------------------------------
(* One InMemoryLedger instance over its storage file.  Every operation is  *)
(* the steps between its awaits, so that a call made while another is in   *)
(* flight runs between these steps.  saveState is one step: `mkdir` of a   *)
(* directory and the write that follows it.                                *)

MaxCalls == 3     \* calls made on one instance
MaxInFlight == 2  \* calls of one instance that have not returned

\* JSON.stringify writes null for NaN and leaves out a property whose value
\* is undefined; reading a property JSON.parse did not find gives undefined
Omitted == "omitted"
jsonNumber(x) == IF x = NaN THEN Null ELSE x
jsonOptional(x, undefined) == IF x = undefined THEN Omitted ELSE x
readOptional(j, undefined) == IF j = Omitted THEN undefined ELSE j

\* JSON.stringify(this.state)
stringify(L) ==
    [version |-> L.version, block_height |-> L.block_height,
     accounts |->
        IF DOMAIN L.accounts = {} THEN << >>
        ELSE [pk \in DOMAIN L.accounts |->
                 [L.accounts[pk] EXCEPT !.balance = jsonNumber(@)]],
     transactions |->
        IF DOMAIN L.transactions = {} THEN << >>
        ELSE [h \in DOMAIN L.transactions |->
                 [L.transactions[h] EXCEPT !.amount = jsonNumber(@),
                                           !.to = jsonOptional(@, NoKey),
                                           !.data = jsonOptional(@, NoData)]],
     account_transactions |-> L.account_transactions]

\* JSON.parse(data), as the code reads it afterwards
parse(data) ==
    [version |-> data.version, block_height |-> data.block_height,
     accounts |-> data.accounts,
     transactions |->
        IF DOMAIN data.transactions = {} THEN << >>
        ELSE [h \in DOMAIN data.transactions |->
                 [data.transactions[h] EXCEPT !.to = readOptional(@, NoKey),
                                              !.data = readOptional(@, NoData)]],
     account_transactions |-> data.account_transactions]

\* signed transfers from a to b with nonce 1, of the given amounts
InstanceTxs(amounts) ==
    {WithSignature(tx, signTransaction(tx, tx.from)) :
        tx \in {[version |-> 1, type |-> "transfer", from |-> "a", to |-> "b",
                 amount |-> amt, nonce |-> 1, timestamp |-> 7, data |-> NoData] :
                    amt \in amounts}}

\* the calls made on the instance; tx holds the transaction of applyTransaction
InstanceCalls(amounts) ==
    {[op |-> "createAccount", public_key |-> pk, initial_balance |-> 4, tx |-> << >>] :
        pk \in {"a", "c"}}
    \cup {[op |-> "applyTransaction", public_key |-> NoKey, initial_balance |-> 0,
           tx |-> <<tx>>] : tx \in InstanceTxs(amounts)}
    \cup {[op |-> "incrementBlockHeight", public_key |-> NoKey, initial_balance |-> 0,
           tx |-> << >>]}

\* the amounts of a caller that awaits its calls: a number or, as the CLI's
\* parseInt gives it for a text that is no number, NaN
AwaitedAmounts == {2, NaN}

\* the amounts of callers that do not wait for one another
ConcurrentAmounts == {1, 2}

\* a call up to its first await, `await this.initialize()`: initialize
\* returns at once when the instance is initialized (line 56) and awaits
\* readFile otherwise (line 59).  `sender` is the account object line 149
\* found, kept once a later JSON.parse has replaced this.state.
start(call) ==
    [op |-> call.op, public_key |-> call.public_key,
     initial_balance |-> call.initial_balance, tx |-> call.tx,
     pc |-> IF initialized THEN "initialize" ELSE "readFile",
     result |-> Ok, sender |-> << >>]

at(c, pc) == [c EXCEPT !.pc = pc]
returned(c, res) == [c EXCEPT !.pc = "returned", !.result = res]

\* an operation from the return of `await this.initialize()` to its next
\* await or to its return, on the state L: the call and the state after it
body(c, L, t) ==
    IF c.op = "createAccount"
    THEN LET r == createAccount(L, c.public_key, c.initial_balance, t) IN
         IF r.result.success
         THEN [call |-> at(c, "saveState"), state |-> r.state]
         ELSE [call |-> returned(c, r.result), state |-> L]
    ELSE IF c.op = "incrementBlockHeight"
    THEN [call |-> at(c, "saveState"), state |-> incrementBlockHeight(L)]
    ELSE LET tx == c.tx[1] IN
         IF isDuplicate(L, hashTransaction(tx))
         THEN [call |-> returned(c, Err("Transaction already exists (duplicate)")),
               state |-> L]
         ELSE IF tx.from \notin DOMAIN L.accounts
         THEN [call |-> returned(c, Err("Sender account not found")), state |-> L]
         ELSE IF ~nonceMatches(L.accounts[tx.from], tx)
         THEN [call |-> returned(c, ErrNonce(L.accounts[tx.from].nonce + 1)),
               state |-> L]
         ELSE [call |-> at(c, "verifyTransactionSignature"), state |-> L]

\* lines 174-187 when `sender` is an object of a state that JSON.parse has
\* replaced: only the recipient, looked up in this.state, changes
creditRecipient(accts, tx, t) ==
    [accts EXCEPT ![tx.to].balance = jsAdd(@, tx.amount), ![tx.to].updated_at = t]

\* applyTransaction from the return of `await verifyTransactionSignature`
\* (line 158) to `await this.saveState()` or to its return
afterVerify(c, L, t) ==
    LET tx == c.tx[1]
        live == c.sender = << >>
        sender == IF live THEN L.accounts[tx.from] ELSE c.sender[1]
        economicCheck == validateEconomicConstraints(tx, sender.balance)
    IN  IF ~verifyTransactionSignature(tx)
        THEN [call |-> returned(c, Err("Invalid transaction signature")), state |-> L]
        ELSE IF ~economicCheck.valid
        THEN [call |-> returned(c, Err(economicCheck.error)), state |-> L]
        ELSE IF isTransferWithRecipient(tx)
        THEN IF tx.to \notin DOMAIN L.accounts
             THEN [call |-> returned(c, Err("Recipient account not found")),
                   state |-> L]
             ELSE IF jsLess(sender.balance, jsAdd(tx.amount, 1))
             THEN [call |-> returned(c, Err("Insufficient balance")), state |-> L]
             ELSE [call |-> at(c, "saveState"),
                   state |-> storeTransaction(L,
                                IF live THEN applyTransfer(L.accounts, tx, t)
                                ELSE creditRecipient(L.accounts, tx, t),
                                tx, hashTransaction(tx), t)]
        ELSE [call |-> at(c, "saveState"),
              state |-> storeTransaction(L, L.accounts, tx, hashTransaction(tx), t)]

\* `this.state = JSON.parse(data)`: the calls that wait with an account
\* object of the old state keep that object
orphan(c, L) ==
    IF c.pc = "verifyTransactionSignature" /\ c.sender = << >>
    THEN [c EXCEPT !.sender = <<L.accounts[c.tx[1].from]>>]
    ELSE c

Pending == {i \in DOMAIN inflight : inflight[i].pc # "returned"}

\* what a caller sees when call c2 has returned
Returns(c2) ==
    IF c2.pc = "returned"
    THEN lastOp' = c2.op /\ result' = c2.result
    ELSE UNCHANGED <<lastOp, result>>

\* the storage path holds nothing, or the state of a ledger with the funded
\* accounts a and b, written by an earlier instance
InstanceInit ==
    /\ file \in {NoFile, <<stringify(PbftLedger)>>}
    /\ initialized = FALSE
    /\ inflight = << >>
    /\ ledger = EmptyLedger
    /\ now = 0
    /\ lastOp = "constructor"
    /\ result = Ok
    /\ storage = EmptyStorage
    /\ identity = EmptyIdentity
    /\ validators = << >>
    /\ deliveries = 0
    /\ suspended = << >>
    /\ applying = << >>
    /\ calls = << >>

\* a caller makes a call while fewer than `limit` calls are in flight
StartCall(limit, amounts) ==
    /\ Len(inflight) < MaxCalls
    /\ Cardinality(Pending) < limit
    /\ \E call \in InstanceCalls(amounts) :
        /\ call.op = "incrementBlockHeight" =>
              /\ ledger.block_height < MaxHeight
              /\ file # NoFile => file[1].block_height < MaxHeight
        /\ inflight' = Append(inflight, start(call))
        /\ UNCHANGED <<ledger, file, initialized, now, lastOp, result,
                       marketVars, pbftVars>>

\* calls made one after the other, each awaited
CallAwaited == StartCall(1, AwaitedAmounts)

\* calls made without awaiting the ones before
CallConcurrently == StartCall(MaxInFlight, ConcurrentAmounts)

\* initialize after `await fs.readFile`: the file's content replaces
\* this.state (line 60), or, when there is no file, saveState is awaited
\* (line 65); with the state loaded the operation goes on to its next await
ResumeReadFile ==
    \E i \in DOMAIN inflight :
        /\ inflight[i].pc = "readFile"
        /\ IF file = NoFile
           THEN /\ inflight' = [inflight EXCEPT ![i] = at(@, "initialize.saveState")]
                /\ UNCHANGED <<ledger, initialized, lastOp, result>>
           ELSE LET b == body(inflight[i], parse(file[1]), now) IN
                /\ ledger' = b.state
                /\ initialized' = TRUE
                /\ inflight' = [j \in DOMAIN inflight |->
                                   IF j = i THEN b.call
                                   ELSE orphan(inflight[j], ledger)]
                /\ Returns(b.call)
        /\ UNCHANGED <<file, now, marketVars, pbftVars>>

\* initialize after `await this.saveState()` (line 65): the state is
\* written, `initialized` is set, and the operation goes on
ResumeInitializeSaveState ==
    \E i \in DOMAIN inflight :
        /\ inflight[i].pc = "initialize.saveState"
        /\ LET b == body(inflight[i], ledger, now) IN
           /\ file' = <<stringify(ledger)>>
           /\ ledger' = b.state
           /\ initialized' = TRUE
           /\ inflight' = [inflight EXCEPT ![i] = b.call]
           /\ Returns(b.call)
        /\ UNCHANGED <<now, marketVars, pbftVars>>

\* the operation after `await this.initialize()` on an initialized instance
ResumeInitialize ==
    \E i \in DOMAIN inflight :
        /\ inflight[i].pc = "initialize"
        /\ LET b == body(inflight[i], ledger, now) IN
           /\ ledger' = b.state
           /\ inflight' = [inflight EXCEPT ![i] = b.call]
           /\ Returns(b.call)
        /\ UNCHANGED <<file, initialized, now, marketVars, pbftVars>>

ResumeVerifyTransactionSignature ==
    \E i \in DOMAIN inflight :
        /\ inflight[i].pc = "verifyTransactionSignature"
        /\ LET b == afterVerify(inflight[i], ledger, now) IN
           /\ ledger' = b.state
           /\ inflight' = [inflight EXCEPT ![i] = b.call]
           /\ Returns(b.call)
        /\ UNCHANGED <<file, initialized, now, marketVars, pbftVars>>

\* saveState writes JSON.stringify(this.state) and the operation returns
ResumeSaveState ==
    \E i \in DOMAIN inflight :
        /\ inflight[i].pc = "saveState"
        /\ file' = <<stringify(ledger)>>
        /\ inflight' = [inflight EXCEPT ![i] = returned(@, Ok)]
        /\ Returns(returned(inflight[i], Ok))
        /\ UNCHANGED <<ledger, initialized, now, marketVars, pbftVars>>

\* every call has returned; a new instance is constructed on the same path
NewInstance ==
    /\ Pending = {}
    /\ inflight # << >>
    /\ ledger' = EmptyLedger
    /\ initialized' = FALSE
    /\ inflight' = << >>
    /\ lastOp' = "constructor"
    /\ result' = Ok
    /\ UNCHANGED <<file, now, marketVars, pbftVars>>

ResumeCall ==
    \/ ResumeReadFile
    \/ ResumeInitializeSaveState
    \/ ResumeInitialize
    \/ ResumeVerifyTransactionSignature
    \/ ResumeSaveState

\* one caller that awaits every call
StoreNext == CallAwaited \/ ResumeCall \/ NewInstance

SpecStore == InstanceInit /\ [][StoreNext]_vars

\* callers that do not wait for one another
InstanceNext == CallConcurrently \/ ResumeCall \/ NewInstance

SpecInstance == InstanceInit /\ [][InstanceNext]_vars

----------------------------------------------------------------------------
(* Properties of the ledger instance and its storage file *)

\* C31 (as claimed): when a mutating operation (createAccount, an accepted
\* applyTransaction, incrementBlockHeight) has completed and no other call
\* is in flight, a new instance initialized from the same path loads exactly
\* the in-memory state: accounts, balances, nonces, applied log, indices and
\* block height.
C31_PersistedEqualsInMemory ==
    (inflight # << >> /\ Pending = {}
        /\ inflight[Len(inflight)].result.success) =>
            /\ file # NoFile
            /\ parse(file[1]) = ledger

\* the applyTransaction calls that have returned
ReturnedTransactions ==
    {i \in DOMAIN inflight :
        inflight[i].op = "applyTransaction" /\ inflight[i].pc = "returned"}

\* C33 (as claimed): of two applyTransaction calls on one instance that have
\* returned, however their steps interleaved, not both were accepted when
\* they carried the same transaction or two transactions of one sender with
\* the same nonce; and an accepted transaction is in its sender's index once.
C33_OneOfTwoConflictingCallsAccepted ==
    /\ \A i, j \in ReturnedTransactions :
          (i < j /\ inflight[i].tx[1].from = inflight[j].tx[1].from
                 /\ inflight[i].tx[1].nonce = inflight[j].tx[1].nonce) =>
              ~(inflight[i].result.success /\ inflight[j].result.success)
    /\ \A h \in DOMAIN ledger.transactions :
          Occurrences(ledger, ledger.transactions[h].from, h) <= 1

\* C39 (as claimed): no step of an instance takes back what an operation
\* has done to the in-memory state: accounts stay, with the nonces and
\* balances only operations change, applied transactions stay, and the block
\* height does not fall; in particular the state a later-finishing
\* initialize loads replaces no mutation.
C39_InitializeLosesNoUpdate ==
    [][lastOp' # "constructor" =>
          /\ DOMAIN ledger.accounts \subseteq DOMAIN ledger'.accounts
          /\ DOMAIN ledger.transactions \subseteq DOMAIN ledger'.transactions
          /\ ledger.block_height <= ledger'.block_height]_vars

====
